---- MODULE Spec2Model ----
(***************************************************************************)
(* StockRoom: the ingestion pipeline of the main process (ipc-handlers.cjs, *)
(* db.cjs, ffmpeg-utils.cjs, file-utils.cjs) and the facet filter engine of *)
(* the renderer (app.js, class VideoManager).                               *)
(*                                                                         *)
(* Strings are sequences of one-character strings, so that trimming,       *)
(* lower-casing, splitting and extension extraction are computed.  A path  *)
(* is the sequence of its components.                                      *)
(***************************************************************************)
EXTENDS Integers, Sequences, FiniteSets, TLC

\* ------------------------------------------------------------------ bounds
\* Longest list of paths one drop hands to analyze-videos.
MaxPaths == 2
\* Longest tags / term string drawn as an input of the filter engine.
MaxLen == 3

\* Most showDetail calls of one behaviour, and most preview calls in flight.
MaxDetails == 3
\* Most update-tags invocations of one behaviour.
MaxOps == 2
\* Most symbolic links the operating system follows while it resolves one
\* path (40 on Linux); a path through more is refused with ELOOP.
MaxLinks == 2

\* --------------------------------------------------------- string helpers
\* String.prototype.toLowerCase, one character.
lowerChar(c) ==
    CASE c = "A" -> "a"
      [] c = "B" -> "b"
      [] c = "H" -> "h"
      [] c = "K" -> "k"
      [] c = "M" -> "m"
      [] c = "P" -> "p"
      [] c = "V" -> "v"
      [] OTHER -> c

\* String.prototype.toLowerCase
toLowerCase(s) == [k \in 1..Len(s) |-> lowerChar(s[k])]

\* White space as String.prototype.trim sees it.
isSpace(c) == c = " "

\* String.prototype.trim: drops leading and trailing white space.
RECURSIVE trimStart(_)
trimStart(s) ==
    IF s # <<>> /\ isSpace(Head(s)) THEN trimStart(Tail(s)) ELSE s

RECURSIVE trimEnd(_)
trimEnd(s) ==
    IF s # <<>> /\ isSpace(s[Len(s)]) THEN trimEnd(SubSeq(s, 1, Len(s) - 1)) ELSE s

trim(s) == trimEnd(trimStart(s))

\* String.prototype.split on a one-character separator: always at least one
\* element; the empty string splits into one empty element.
RECURSIVE splitFrom(_, _, _)
splitFrom(s, sep, cur) ==
    IF s = <<>> THEN <<cur>>
    ELSE IF Head(s) = sep THEN <<cur>> \o splitFrom(Tail(s), sep, <<>>)
    ELSE splitFrom(Tail(s), sep, Append(cur, Head(s)))

split(s, sep) == splitFrom(s, sep, <<>>)

\* Array.prototype.join with a one-character separator.
RECURSIVE join(_, _)
join(arr, sep) ==
    IF arr = <<>> THEN <<>>
    ELSE IF Len(arr) = 1 THEN arr[1]
    ELSE arr[1] \o <<sep>> \o join(Tail(arr), sep)

\* Array.prototype.includes
includes(arr, x) == \E k \in 1..Len(arr) : arr[k] = x

\* The sequences over S of length at most n.
RECURSIVE SeqsUpTo(_, _)
SeqsUpTo(S, n) ==
    IF n = 0 THEN {<<>>}
    ELSE LET shorter == SeqsUpTo(S, n - 1)
         IN  shorter \cup {Append(q, x) : q \in {r \in shorter : Len(r) = n - 1}, x \in S}

\* ------------------------------------------------------------- file system
\* path.basename: the last component.
basename(p) == p[Len(p)]

\* path.join(dir, entry)
pathJoin(p, f) == Append(p, f)

\* Index of the last "." of a file name, 0 when there is none.
lastDot(name) ==
    LET dots == {k \in 1..Len(name) : name[k] = "."}
    IN  IF dots = {} THEN 0 ELSE CHOOSE k \in dots : \A j \in dots : j <= k

\* path.extname: from the last "." of the last component to its end; empty
\* when there is no "." or the only "." leads the name.
extname(p) ==
    LET name == basename(p)
        d == lastDot(name)
    IN  IF d <= 1 THEN <<>> ELSE SubSeq(name, d, Len(name))

VIDEO_EXTS ==
    << <<".", "m", "p", "4">>, <<".", "m", "o", "v">>, <<".", "m", "4", "v">>,
       <<".", "a", "v", "i">>, <<".", "m", "k", "v">>, <<".", "w", "e", "b", "m">> >>

\* The names on disk.
NameLib == <<"l", "i", "b">>
NameP == <<"p", ".", "m", "p", "4">>
NameQ == <<"q", ".", "m", "o", "v">>
NameR == <<"r", ".", "m", "4", "v">>
NameN == <<"n", ".", "t", "x", "t">>
NameS == <<"s", ".", "a", "v", "i">>
NameT == <<"t", ".", "M", "K", "V">>
NameW == <<"w", ".", "w", "e", "b", "m">>
NameGone == <<"g", ".", "m", "p", "4">>
NameTop == <<"t", "o", "p">>
NameSub == <<"s", "u", "b">>
NameRing == <<"r", "i", "n", "g">>
NameLoop == <<"l", "o", "o", "p">>

PathLib == <<NameLib>>
PathP == <<NameLib, NameP>>
PathQ == <<NameLib, NameQ>>
PathR == <<NameLib, NameR>>
PathN == <<NameLib, NameN>>
PathS == <<NameLib, NameS>>
PathT == <<NameLib, NameT>>
PathW == <<NameW>>
PathGone == <<NameGone>>

\* A second tree, two levels deep: top/ holds w.webm, the directory sub/ with
\* q.mov and n.txt, and p.mp4, in this order.
PathTop == <<NameTop>>
PathSub == <<NameTop, NameSub>>
PathTopW == <<NameTop, NameW>>
PathSubQ == <<NameTop, NameSub, NameQ>>
PathSubN == <<NameTop, NameSub, NameN>>
PathTopP == <<NameTop, NameP>>

\* A directory reachable from itself: ring/ holds loop, a symbolic link to
\* ring/ itself, and p.mp4.
PathRing == <<NameRing>>
PathLoop == <<NameRing, NameLoop>>
PathRingP == <<NameRing, NameP>>

\* The directory trees the traversal reads: lib/ holds five videos and a text
\* file, w.webm lies beside it, top/ is the second tree, ring/ the directory
\* with the cycle, g.mp4 does not exist.
Directories == {PathLib, PathTop, PathSub, PathRing}
RegularFiles ==
    {PathP, PathQ, PathR, PathN, PathS, PathT, PathW, PathTopW, PathSubQ, PathSubN, PathTopP,
     PathRingP}
SymbolicLinks == {PathLoop}

\* fs.readlinkSync: where a symbolic link points.
readlink(link) == PathRing

\* The operating system resolving a path component by component: the file
\* it arrives at and the number of symbolic links it followed.
RECURSIVE resolve(_, _, _)
resolve(at, rest, links) ==
    IF rest = <<>> THEN [path |-> at, links |-> links]
    ELSE LET next == Append(at, Head(rest))
         IN  IF next \in SymbolicLinks
             THEN resolve(readlink(next), Tail(rest), links + 1)
             ELSE resolve(next, Tail(rest), links)

\* fs.existsSync with no limit on the links of a path.
existsSyncAnyDepth(p) == resolve(<<>>, p, 0).path \in Directories \cup RegularFiles

\* fs.existsSync: false for whatever makes the stat call fail, a missing file
\* as well as a path through too many links.
existsSync(p) ==
    LET r == resolve(<<>>, p, 0)
    IN  r.links <= MaxLinks /\ r.path \in Directories \cup RegularFiles

\* fs.statSync(p).isDirectory(), which follows links
isDirectory(p) == resolve(<<>>, p, 0).path \in Directories

\* fs.readdirSync: the entry names, in directory order.
readdirSync(p) ==
    LET dir == resolve(<<>>, p, 0).path
    IN  CASE dir = PathLib -> <<NameP, NameQ, NameR, NameN, NameS, NameT>>
          [] dir = PathTop -> <<NameW, NameSub, NameP>>
          [] dir = PathSub -> <<NameQ, NameN>>
          [] dir = PathRing -> <<NameLoop, NameP>>
          [] OTHER -> <<>>

\* The traversal with the files of the later paths put first.
RECURSIVE getFilesLaterFirst(_)
getFilesLaterFirst(paths) ==
    IF paths = <<>> THEN <<>>
    ELSE LET p == Head(paths)
             found ==
                 IF ~existsSync(p) THEN <<>>
                 ELSE IF isDirectory(p)
                      THEN getFilesLaterFirst(
                               [k \in 1..Len(readdirSync(p)) |-> pathJoin(p, readdirSync(p)[k])])
                      ELSE IF includes(VIDEO_EXTS, toLowerCase(extname(p)))
                           THEN <<p>>
                           ELSE <<>>
         IN  getFilesLaterFirst(Tail(paths)) \o found

\* file-utils.cjs getFilesRecursively
RECURSIVE getFilesRecursively(_)
getFilesRecursively(paths) ==
    IF paths = <<>> THEN <<>>
    ELSE LET p == Head(paths)
             found ==
                 IF ~existsSync(p) THEN <<>>
                 ELSE IF isDirectory(p)
                      THEN getFilesRecursively(
                               [k \in 1..Len(readdirSync(p)) |-> pathJoin(p, readdirSync(p)[k])])
                      ELSE IF includes(VIDEO_EXTS, toLowerCase(extname(p)))
                           THEN <<p>>
                           ELSE <<>>
         IN  found \o getFilesRecursively(Tail(paths))

\* main.cjs: the extensions its own copy of the traversal recognizes.
videoExts ==
    << <<".", "m", "p", "4">>, <<".", "m", "o", "v">>, <<".", "m", "4", "v">>,
       <<".", "a", "v", "i">>, <<".", "m", "k", "v">> >>

\* main.cjs getFilesRecursively
RECURSIVE mainGetFilesRecursively(_)
mainGetFilesRecursively(paths) ==
    IF paths = <<>> THEN <<>>
    ELSE LET p == Head(paths)
             found ==
                 IF ~existsSync(p) THEN <<>>
                 ELSE IF isDirectory(p)
                      THEN mainGetFilesRecursively(
                               [k \in 1..Len(readdirSync(p)) |-> pathJoin(p, readdirSync(p)[k])])
                      ELSE IF includes(videoExts, toLowerCase(extname(p)))
                           THEN <<p>>
                           ELSE <<>>
         IN  found \o mainGetFilesRecursively(Tail(paths))

\* The paths a traversal can be started on, and the lists of them.
PathNames ==
    {PathLib, PathP, PathQ, PathR, PathN, PathS, PathT, PathW, PathGone, PathTop, PathSub}

PathLists == SeqsUpTo(PathNames, MaxPaths)

\* ------------------------------------------------------- frame-rate parsing
\* A parsed number is a fraction [num, den] with den > 0; NaN is not a number.
NaN == [num |-> 0, den |-> 0]

isDigit(c) == c \in {"0", "1", "2", "3", "4", "5", "6", "7", "8", "9"}

digitVal(c) ==
    CASE c = "0" -> 0 [] c = "1" -> 1 [] c = "2" -> 2 [] c = "3" -> 3 [] c = "4" -> 4
      [] c = "5" -> 5 [] c = "6" -> 6 [] c = "7" -> 7 [] c = "8" -> 8 [] c = "9" -> 9

digitChar(n) == <<"0", "1", "2", "3", "4", "5", "6", "7", "8", "9">>[n + 1]

RECURSIVE pow10(_)
pow10(k) == IF k = 0 THEN 1 ELSE 10 * pow10(k - 1)

\* The longest prefix of s made of digits.
RECURSIVE digitsPrefix(_)
digitsPrefix(s) ==
    IF s # <<>> /\ isDigit(Head(s)) THEN <<Head(s)>> \o digitsPrefix(Tail(s)) ELSE <<>>

RECURSIVE digitsValue(_)
digitsValue(ds) ==
    IF ds = <<>> THEN 0 ELSE 10 * digitsValue(SubSeq(ds, 1, Len(ds) - 1)) + digitVal(ds[Len(ds)])

\* parseFloat: leading white space, a sign, digits, a fraction; whatever
\* follows is ignored; NaN when no digit was read.
parseFloat(s) ==
    LET t == trimStart(s)
        signed == t # <<>> /\ Head(t) \in {"-", "+"}
        u == IF signed THEN Tail(t) ELSE t
        ip == digitsPrefix(u)
        rest == SubSeq(u, Len(ip) + 1, Len(u))
        fp == IF rest # <<>> /\ Head(rest) = "." THEN digitsPrefix(Tail(rest)) ELSE <<>>
        mag == digitsValue(ip) * pow10(Len(fp)) + digitsValue(fp)
    IN  IF ip = <<>> /\ fp = <<>> THEN NaN
        ELSE [num |-> IF signed /\ Head(t) = "-" THEN 0 - mag ELSE mag, den |-> pow10(Len(fp))]

isNaN(x) == x.den = 0

RECURSIVE natDigits(_)
natDigits(n) == IF n < 10 THEN <<digitChar(n)>> ELSE Append(natDigits(n \div 10), digitChar(n % 10))

\* The exponent of the binary64 nearest p/q: the L with 2^L <= p/q < 2^(L+1).
RECURSIVE log2floor(_, _)
log2floor(p, q) ==
    IF p >= 2 * q THEN log2floor(p, 2 * q) + 1
    ELSE IF p < q THEN log2floor(2 * p, q) - 1
    ELSE 0

RECURSIVE pow2mod25(_)
pow2mod25(k) == IF k = 0 THEN 1 ELSE (2 * pow2mod25(k - 1)) % 25

\* The binary64 nearest m/200 (m odd) is not below m/200.  A multiple of 1/8
\* is held exactly; otherwise the 53-bit significand is m * 2^(49-L) / 25
\* rounded to nearest, and it rounds up when the remainder exceeds half of 25.
doubleNotBelow(m) ==
    IF m % 25 = 0 THEN TRUE
    ELSE ((m % 25) * pow2mod25(49 - log2floor(m, 200))) % 25 >= 13

\* Truncation to two decimals in place of rounding.
toFixed2Floor(x) ==
    LET neg == x.num < 0
        a == IF neg THEN 0 - x.num ELSE x.num
        h == (100 * a) \div x.den
        body == natDigits(h \div 100) \o <<".", digitChar((h \div 10) % 10), digitChar(h % 10)>>
    IN  IF neg THEN <<"-">> \o body ELSE body

\* Number.prototype.toFixed(2) of the number num/den: the n with n/100
\* nearest the binary64 value, the larger n when that value lies exactly
\* half way.  The binary64 differs from num/den by less than any distance to
\* a multiple of 0.005 other than zero, so it matters only when num/den
\* itself lies half way.
toFixed2(x) ==
    LET neg == x.num < 0
        a == IF neg THEN 0 - x.num ELSE x.num
        q == (100 * a) \div x.den
        r == (100 * a) % x.den
        h == IF 2 * r < x.den THEN q
             ELSE IF 2 * r > x.den THEN q + 1
             ELSE IF doubleNotBelow(2 * q + 1) THEN q + 1 ELSE q
        body == natDigits(h \div 100) \o <<".", digitChar((h \div 10) % 10), digitChar(h % 10)>>
    IN  IF neg THEN <<"-">> \o body ELSE body

\* numerator / denominator of two parsed numbers, the divisor not zero.
divide(x, y) ==
    IF y.num < 0 THEN [num |-> 0 - x.num * y.den, den |-> x.den * (0 - y.num)]
    ELSE [num |-> x.num * y.den, den |-> x.den * y.num]

ZeroFps == <<"0", ".", "0", "0">>

\* ffmpeg-utils.cjs parseFrameRate
parseFrameRate(rFrameRate) ==
    IF rFrameRate = <<>> THEN ZeroFps
    ELSE LET parts == split(rFrameRate, "/")
             numerator == parseFloat(parts[1])
             denominator == parseFloat(parts[2])
             num == parseFloat(rFrameRate)
         IN  IF /\ Len(parts) = 2
                /\ ~isNaN(numerator) /\ ~isNaN(denominator)
                /\ denominator.num # 0
             THEN toFixed2(divide(numerator, denominator))
             ELSE IF isNaN(num) THEN ZeroFps ELSE toFixed2(num)

\* The r_frame_rate strings handed to parseFrameRate: every string of at most
\* MaxRate characters over whole numbers, the ratio bar and a letter, and the
\* rates ffprobe reports in practice.
MaxRate == 4
MaxFiles == 2

RateChars == {"0", "1", "4", "8", "/", "a"}

RateExamples ==
    { <<"3", "0", "0", "0", "0", "/", "1", "0", "0", "1">>,
      <<"2", "4", "0", "0", "0", "/", "1", "0", "0", "1">>,
      <<"3", "0">>, <<"2", "5", "/", "0">>, <<"3", "0", "/", "0">>,
      <<"a", "b", "c">>, <<"2", "9", ".", "9", "7">>, <<"1", ".", "0", "0", "5">> }

Rates == SeqsUpTo(RateChars, MaxRate) \cup RateExamples

\* ------------------------------------------------------------ record store
\* What ffprobe reports of a file's first video stream.  An empty codec_name
\* or r_frame_rate and a zero width or height stand for a missing field.
StreamOf(p) ==
    CASE p = PathT -> [codec_name |-> <<"H", "A", "P">>, width |-> 3840, height |-> 2160,
                       r_frame_rate |-> <<"3", "0", "/", "1">>]
      [] p = PathW -> [codec_name |-> <<>>, width |-> 0, height |-> 0,
                       r_frame_rate |-> <<"2", "5", "/", "0">>]
      [] OTHER -> [codec_name |-> <<"h", "2", "6", "4">>, width |-> 1920, height |-> 1080,
                   r_frame_rate |-> <<"3", "0">>]

Unknown == <<"u", "n", "k", "n", "o", "w", "n">>

\* The fields analyzeLightweight derives from the video stream.
StreamFields(videoStream) ==
    [codec |-> IF videoStream.codec_name = <<>> THEN Unknown ELSE videoStream.codec_name,
     width |-> videoStream.width,
     height |-> videoStream.height,
     fps |-> parseFrameRate(videoStream.r_frame_rate)]

\* The same, worked out once for each file on disk.
Probed == [p \in {PathP, PathQ, PathR, PathN, PathS, PathT, PathW} |-> StreamFields(StreamOf(p))]

\* The object analyzeLightweight resolves with once the screenshot has ended.
VideoData(videoPath, thumbPath, fields) ==
    [path |-> videoPath,
     name |-> basename(videoPath),
     thumbnail |-> thumbPath,
     preview |-> <<>>,
     codec |-> fields.codec,
     width |-> fields.width,
     height |-> fields.height,
     fps |-> fields.fps,
     tags |-> <<>>]

\* A row written by an earlier session.
OldRow(p, n, t) == [VideoData(p, <<"old", n>>, Probed[p]) EXCEPT !.tags = t]

TagX == <<"x">>

\* The table as a session may find it: four files of lib/ are catalogued.
\* SELECT * FROM videos returns them in the order of their insertion.
CataloguedRows ==
    <<OldRow(PathP, 1, TagX), OldRow(PathQ, 2, <<>>), OldRow(PathR, 3, <<>>), OldRow(PathS, 4, <<>>)>>

Catalogued == {CataloguedRows[k] : k \in 1..Len(CataloguedRows)}

\* The ingest invocations (drops) of the session.
Invocations == {"i1", "i2"}

\* The names a drop can carry.
DropNames == {PathLib, PathW, PathGone, PathN}

DropLists == SeqsUpTo(DropNames, MaxPaths) \ {<<>>}

\* The paths and tag strings update-tags is called with.
TagTargets == {PathW, PathGone}
TagValues == {<<>>, TagX}

\* ------------------------------------------------------ the filter engine
Res4k == <<"4", "k">>
Res1080p == <<"1", "0", "8", "0", "p">>
Res720p == <<"7", "2", "0", "p">>
ResSd == <<"s", "d">>

\* Thresholds one too high: 2160 and 1080 and 720 fall a class lower.
getResolutionCategoryStrict(height) ==
    IF height > 2160 THEN Res4k
    ELSE IF height > 1080 THEN Res1080p
    ELSE IF height > 720 THEN Res720p
    ELSE ResSd

\* VideoManager.getResolutionCategory
getResolutionCategory(height) ==
    IF height >= 2160 THEN Res4k
    ELSE IF height >= 1080 THEN Res1080p
    ELSE IF height >= 720 THEN Res720p
    ELSE ResSd

\* The searchTerms array of matchFilters.
searchTerms(video) ==
    (IF video.tags # <<>>
     THEN LET parts == split(video.tags, ",")
          IN  [k \in 1..Len(parts) |-> toLowerCase(trim(parts[k]))]
     ELSE <<>>)
    \o <<toLowerCase(video.codec), getResolutionCategory(video.height)>>

\* Array.prototype.every / some with searchTerms.includes as the test.
everyIncluded(terms, arr) == \A k \in 1..Len(arr) : includes(terms, arr[k])
someIncluded(terms, arr) == \E k \in 1..Len(arr) : includes(terms, arr[k])

\* The OR clause read as a second AND.
matchFiltersOrAsAnd(this, video) ==
    IF this.showUntaggedOnly /\ (video.tags # <<>> /\ Len(trim(video.tags)) > 0) THEN FALSE
    ELSE LET terms == searchTerms(video)
         IN  IF Len(this.filters.and) > 0 /\ ~everyIncluded(terms, this.filters.and) THEN FALSE
             ELSE IF Len(this.filters.or) > 0 /\ ~everyIncluded(terms, this.filters.or) THEN FALSE
             ELSE IF Len(this.filters.not) > 0 /\ someIncluded(terms, this.filters.not) THEN FALSE
             ELSE TRUE

\* VideoManager.matchFilters
matchFilters(this, video) ==
    IF this.showUntaggedOnly /\ (video.tags # <<>> /\ Len(trim(video.tags)) > 0) THEN FALSE
    ELSE LET terms == searchTerms(video)
         IN  IF Len(this.filters.and) > 0 /\ ~everyIncluded(terms, this.filters.and) THEN FALSE
             ELSE IF Len(this.filters.or) > 0 /\ ~someIncluded(terms, this.filters.or) THEN FALSE
             ELSE IF Len(this.filters.not) > 0 /\ someIncluded(terms, this.filters.not) THEN FALSE
             ELSE TRUE

\* The matching videos, last first.
getFilteredVideosReversed(this) ==
    LET kept == SelectSeq(this.videos, LAMBDA video : matchFilters(this, video))
    IN  [k \in 1..Len(kept) |-> kept[Len(kept) + 1 - k]]

\* VideoManager.getFilteredVideos
getFilteredVideos(this) == SelectSeq(this.videos, LAMBDA video : matchFilters(this, video))

\* Array.prototype.indexOf, 0-based, -1 when absent.
indexOf(arr, x) ==
    IF includes(arr, x) THEN (CHOOSE k \in 1..Len(arr) : arr[k] = x /\ \A j \in 1..(k - 1) : arr[j] # x) - 1
    ELSE 0 - 1

\* createVideoCard: the card's data-index, title and the two badges.
createVideoCard(video, index) ==
    [index |-> index,
     name |-> video.name,
     codec |-> video.codec,
     resolution |-> getResolutionCategory(video.height)]

\* render: the grid rebuilt from the filtered videos.  Every caller also
\* sets the 300 ms timer of updateSidebar anew.
render(this) ==
    LET filteredVideos == getFilteredVideos(this)
    IN  [k \in 1..Len(filteredVideos) |->
            createVideoCard(filteredVideos[k], indexOf(this.videos, filteredVideos[k]))]

\* The characters of the model in the order of their UTF-16 code units.
CharOrder ==
    <<" ", ",", ".", "/", "0", "1", "2", "3", "4", "5", "6", "7", "8", "9",
      "A", "B", "H", "K", "M", "P", "V", "_",
      "a", "b", "c", "d", "e", "g", "h", "i", "k", "l", "m", "n", "o", "p", "q", "r", "s",
      "t", "u", "v", "w", "x", "y">>

charCode(c) == CHOOSE k \in 1..Len(CharOrder) : CharOrder[k] = c

\* The default comparison of Array.prototype.sort: by code units, a proper
\* prefix first.
RECURSIVE lessThan(_, _)
lessThan(s, t) ==
    IF t = <<>> THEN FALSE
    ELSE IF s = <<>> THEN TRUE
    ELSE IF Head(s) = Head(t) THEN lessThan(Tail(s), Tail(t))
    ELSE charCode(Head(s)) < charCode(Head(t))

\* Array.from(tagSet) left in the order of first insertion.
RECURSIVE arrayFrom(_)
arrayFrom(tagSet) ==
    IF tagSet = {} THEN <<>>
    ELSE LET x == CHOOSE y \in tagSet : TRUE IN <<x>> \o arrayFrom(tagSet \ {x})

\* Array.from(tagSet).sort()
RECURSIVE sort(_)
sort(tagSet) ==
    IF tagSet = {} THEN <<>>
    ELSE LET least == CHOOSE x \in tagSet : \A y \in tagSet \ {x} : lessThan(x, y)
         IN  <<least>> \o sort(tagSet \ {least})

\* The user tags of one video as updateSidebar collects them.
userTagsOf(video) ==
    IF video.tags = <<>> THEN {}
    ELSE LET parts == split(video.tags, ",")
         IN  {toLowerCase(trim(parts[k])) : k \in 1..Len(parts)} \ {<<>>}

\* A container of the sidebar before it was first drawn.
Undrawn == [dataset |-> <<>>, items |-> <<>>]

\* drawTagList without the sort.
drawTagListUnsorted(container, tagSet) ==
    LET tags == arrayFrom(tagSet)
    IN  IF container.dataset = <<join(tags, ",")>> THEN container
        ELSE [dataset |-> <<join(tags, ",")>>, items |-> tags]

\* drawTagList: the sorted tags, drawn unless the container already shows them.
drawTagList(container, tagSet) ==
    LET tags == sort(tagSet)
    IN  IF container.dataset = <<join(tags, ",")>> THEN container
        ELSE [dataset |-> <<join(tags, ",")>>, items |-> tags]

\* updateSidebar: the three containers after it has run.
updateSidebar(this, drawn) ==
    LET formats == {toLowerCase(this.videos[k].codec) :
                        k \in {j \in 1..Len(this.videos) : this.videos[j].codec # <<>>}}
        resolutions == {getResolutionCategory(this.videos[k].height) : k \in 1..Len(this.videos)}
        userTags == UNION {userTagsOf(this.videos[k]) : k \in 1..Len(this.videos)}
    IN  [format |-> drawTagList(drawn.format, formats),
         res |-> drawTagList(drawn.res, resolutions),
         tags |-> drawTagList(drawn.tags, userTags)]

\* String.prototype.includes and String.prototype.endsWith
includesStr(s, sub) ==
    \E k \in 0..(Len(s) - Len(sub)) : SubSeq(s, k + 1, k + Len(sub)) = sub

endsWith(s, suffix) ==
    Len(s) >= Len(suffix) /\ SubSeq(s, Len(s) - Len(suffix) + 1, Len(s)) = suffix

\* showDetail: the video is played from a generated preview.
needsPreview(video) ==
    LET codec == toLowerCase(video.codec)
        name == toLowerCase(basename(video.path))
    IN  \/ includesStr(codec, <<"h", "a", "p">>)
        \/ includesStr(codec, <<"d", "x", "v">>)
        \/ endsWith(name, <<".", "m", "o", "v">>)
        \/ endsWith(name, <<".", "m", "k", "v">>)

\* The tagArray of addTagToVideo: the trimmed elements of video.tags.
tagArrayOf(video) ==
    IF video.tags # <<>>
    THEN LET parts == split(video.tags, ",") IN [k \in 1..Len(parts) |-> trim(parts[k])]
    ELSE <<>>

\* The tagArray of removeTagFromVideo: tags is split whether empty or not.
tagArrayWithout(video, tag) ==
    LET parts == split(video.tags, ",")
    IN  SelectSeq([k \in 1..Len(parts) |-> trim(parts[k])], LAMBDA t : t # tag)

\* renderTags: the badges of the panel, one for each element that is not
\* empty after trimming.
renderTags(video) ==
    IF video.tags # <<>>
    THEN SelectSeq(tagArrayOf(video), LAMBDA t : t # <<>>)
    ELSE <<>>

\* The values typed into the tag input and the texts dropped on the panel.
TypedValues == { <<"y">>, <<" ", "y">>, <<"y", ",">>, <<" ">> }
DroppedTexts == { <<"x">>, <<" ">>, <<" ", "y">> }

\* The cards clicked where tags are edited (p.mp4 and r.m4v play without a
\* preview) and where previews are watched (q.mov needs one).
\* The badges whose cross is clicked.
BadgeTexts == {<<"x">>, <<"y">>}

TagCards == {1, 3}
PreviewCards == {1, 2}

\* ------------------------------------------------------------------- export
\* path.parse of a file name: name and ext.
pathParse(fileName) ==
    LET ext == extname(<<fileName>>)
    IN  [name |-> SubSeq(fileName, 1, Len(fileName) - Len(ext)), ext |-> ext]

\* `${parsed.name}_${counter}${parsed.ext}`
newName(parsed, counter) == parsed.name \o <<"_">> \o natDigits(counter) \o parsed.ext

\* The while loop of exportFiles: the first name from counter on that
\* fs.existsSync does not find in the directory.
RECURSIVE freeName(_, _, _)
freeName(dir, parsed, counter) ==
    IF newName(parsed, counter) \in DOMAIN dir
        THEN freeName(dir, parsed, counter + 1)
        ELSE newName(parsed, counter)

\* The destination without the existsSync test: always the base name.
destPathOverwriting(dir, filePath) == basename(filePath)

\* destPath of one file of exportFiles, as a name in the destination directory.
destPathOf(dir, filePath) ==
    LET fileName == basename(filePath)
    IN  IF fileName \in DOMAIN dir THEN freeName(dir, pathParse(fileName), 1) ELSE fileName

\* fs.copyFileSync(filePath, destPath): the file is created, or replaced when
\* it exists.
copyFileSync(dir, filePath, destPath) ==
    [n \in DOMAIN dir \cup {destPath} |-> IF n = destPath THEN filePath ELSE dir[n]]

\* fs.statSync(filePath).size of the sources.
statSize(filePath) == Len(basename(filePath))

\* What a file's turn in the loop of exportFiles may come to.
Outcomes == {"copied", "copyFileSync throws", "statSync throws"}

\* The loop of exportFiles leaving at the first file that fails.
RECURSIVE exportLoopLeaving(_, _, _, _)
exportLoopLeaving(files, outcomes, k, acc) ==
    IF k > Len(files) THEN acc
    ELSE LET filePath == files[k]
             destPath == destPathOf(acc.dir, filePath)
             copied == outcomes[k] # "copyFileSync throws"
             caught == outcomes[k] # "copied"
             r == acc.results
         IN  exportLoopLeaving(files, outcomes, IF caught THEN Len(files) + 1 ELSE k + 1,
                 [dir |-> IF copied THEN copyFileSync(acc.dir, filePath, destPath) ELSE acc.dir,
                  copies |-> Append(acc.copies, [src |-> filePath, dest |-> destPath,
                                                 copied |-> copied]),
                  results |->
                      IF caught
                          THEN [r EXCEPT !.failed = @ + 1,
                                         !.errors = Append(@, [file |-> basename(filePath),
                                                               error |-> outcomes[k]])]
                          ELSE [r EXCEPT !.totalSize = @ + statSize(filePath),
                                         !.success = @ + 1]])

\* exportFiles from its file k on; acc holds the directory, the results and
\* the copyFileSync calls so far.
RECURSIVE exportLoop(_, _, _, _)
exportLoop(files, outcomes, k, acc) ==
    IF k > Len(files) THEN acc
    ELSE LET filePath == files[k]
             destPath == destPathOf(acc.dir, filePath)
             copied == outcomes[k] # "copyFileSync throws"
             caught == outcomes[k] # "copied"
             r == acc.results
         IN  exportLoop(files, outcomes, k + 1,
                 [dir |-> IF copied THEN copyFileSync(acc.dir, filePath, destPath) ELSE acc.dir,
                  copies |-> Append(acc.copies, [src |-> filePath, dest |-> destPath,
                                                 copied |-> copied]),
                  results |->
                      IF caught
                          THEN [r EXCEPT !.failed = @ + 1,
                                         !.errors = Append(@, [file |-> basename(filePath),
                                                               error |-> outcomes[k]])]
                          ELSE [r EXCEPT !.totalSize = @ + statSize(filePath),
                                         !.success = @ + 1]])

\* exportFiles(files, destinationDir)
exportFiles(files, dir, outcomes) ==
    exportLoop(files, outcomes, 1,
               [dir |-> dir, copies |-> <<>>,
                results |-> [success |-> 0, failed |-> 0, totalSize |-> 0, errors |-> <<>>]])

NameOld == <<"o", "l", "d">>
NameP1 == <<"p", "_", "1", ".", "m", "p", "4">>
NameP2 == <<"p", "_", "2", ".", "m", "p", "4">>

\* The bytes of a file that was in the destination before the export.
OldBytes == <<NameOld, NameOld>>

\* A directory holding the given names.
Holding(names) == [n \in names |-> OldBytes]

\* The directories the dialog may return.
ExportDirs ==
    <<Holding({}), Holding({NameP}), Holding({NameP, NameP1}), Holding({NameP1}),
      Holding({NameP, NameP2})>>

\* The files an export is asked for: two share their base name, one is gone.
ExportSources == {PathP, <<NameOld, NameP>>, PathQ, PathGone}

ExportLists == SeqsUpTo(ExportSources, MaxFiles)

\* The outcomes the files of a list may have: a file that is gone is not copied.
OutcomesOf(files) ==
    {o \in [1..Len(files) -> Outcomes] :
        \A k \in 1..Len(files) : files[k] = PathGone => o[k] = "copyFileSync throws"}

NoFilters == [and |-> <<>>, or |-> <<>>, not |-> <<>>]

\* The characters tags are drawn from.
TagChars == {"a", "A", " ", ","}

\* The texts dragged onto the filter zones.
Terms == {<<"a">>, ResSd}

FilterTypes == {"and", "or", "not"}

\* The heights around every threshold.
Heights == {0, 1, 100, 719, 720, 721, 1079, 1080, 1081, 2159, 2160, 2161, 4320}

\* A row of get-videos: only tags, codec and height matter to the engine.
Row(tags, codec, height) ==
    [path |-> PathW, name |-> NameW, thumbnail |-> <<"old", 0>>, preview |-> <<>>,
     codec |-> codec, width |-> 0, height |-> height, fps |-> ZeroFps, tags |-> tags]

\* A row of get-videos stored under path p.
RowAt(p, tags, codec, height) == [Row(tags, codec, height) EXCEPT !.path = p, !.name = basename(p)]

\* Lists of several rows: tags in and out of order and in either case, two
\* codecs, three resolution classes, and the middle row without any tag.
ListOfThree ==
    <<RowAt(PathP, <<"b", ",", "a">>, <<"H", "A", "P">>, 2160),
      RowAt(PathQ, <<>>, <<"h">>, 720),
      RowAt(PathR, <<" ", "a", ",", "B">>, <<"h">>, 0)>>

ListOfTwo ==
    <<RowAt(PathQ, <<"a">>, <<"A">>, 1080), RowAt(PathP, <<>>, <<"h">>, 0)>>

\* What get-videos may return at load: nothing, one row with any tags string
\* and a codec and height on either side of the filter terms or with any
\* height, or one of the longer lists.
LoadedLists ==
    {<<Row(t, c[1], c[2])>> : t \in SeqsUpTo(TagChars, MaxLen),
                               c \in {<<<<"A">>, 1080>>, <<<<"h">>, 0>>}}
    \cup {<<Row(<<>>, <<"h">>, h)>> : h \in Heights}
    \cup {<<>>, ListOfTwo, ListOfThree}

VARIABLES
    store,      \* the rows of table videos
    pc,         \* where each invocation of the analyze-videos handler stands
    allFiles,   \* its candidate list
    current,    \* its 1-based counter
    exists,     \* the result of its last existence query
    sent,       \* the progress messages it has sent, in order
    prior,      \* the table as it was when the invocation started after the others had ended
    videoManager,   \* the renderer's VideoManager instance; activeVideo is the 1-based
                    \* place of the active video in videos and currentPreviewPath the
                    \* number of the preview file, 0 standing for null
    loaded,         \* window.onload has run
    grid,           \* the cards of the grid, as render last built them
    sidebar,        \* the three tag lists of the sidebar, as drawTagList last drew them
    sidebarTimeout, \* the timer render sets for updateSidebar is pending
    shown,          \* the number of showDetail calls that invoked the main process
    inflight,       \* the delete-preview and generate-preview invocations awaiting their reply
    previews,       \* the numbers of the files in the preview directory
    tagOps,         \* the update-tags invocations awaiting their reply, oldest first
    tagLog,         \* every update-tags invocation made, oldest first
    warning,        \* the last tag refused with the "already exists" notification
    fps,            \* the frame rates parsed so far: r_frame_rate and the result
    discovered,     \* the traversals made so far: call site, paths and the files found
    destinationDir, \* the directory select-export-directory returned, 0 before it has
    destination,    \* the files of that directory: name to the file the bytes came from
    copies,         \* the copyFileSync calls of the export, in order
    results,        \* what export-files returned, with its call site and the files asked for
    received,       \* the progress event the renderer's onProgress callback last handled
    delivered,      \* how many of each invocation's messages the renderer has been handed
    roots,          \* the paths a traversal followed call by call was started on
    frames,         \* its calls of getFilesRecursively still running, the innermost last:
                    \* the paths forEach has yet to visit and the results so far
    returned        \* what the outermost call returned

mainVars == <<store, pc, allFiles, current, exists, sent, prior>>
rendererVars == <<videoManager, loaded, grid, sidebar, sidebarTimeout>>
panelVars == <<shown, inflight, previews, tagOps, tagLog, warning>>
exportVars == <<destinationDir, destination, copies, results>>
sinkVars == <<received, delivered>>
walkVars == <<roots, frames, returned>>
utilVars == <<fps, discovered, exportVars, sinkVars, walkVars>>
vars == <<store, pc, allFiles, current, exists, sent, prior, videoManager, loaded, grid,
          sidebar, sidebarTimeout, shown, inflight, previews, tagOps, tagLog, warning, fps,
          discovered, destinationDir, destination, copies, results, received, delivered, roots,
          frames,
          returned>>

\* A table without a key on path.
noKeyConflict(table, row) == FALSE

\* PRIMARY KEY of column path: an INSERT of a path the table holds fails.
primaryKeyConflict(table, row) == \E r \in table : r.path = row.path

\* The query that never finds a row.
dbGetNothing(table, p) == FALSE

\* SELECT path FROM videos WHERE path=?  -- a row or undefined
dbGet(table, p) == \E r \in table : r.path = p

\* INSERT OR REPLACE in place of UPDATE: a missing path gets a row.
dbUpsertTags(table, p, tags) ==
    IF \E r \in table : r.path = p
    THEN {IF r.path = p THEN [r EXCEPT !.tags = tags] ELSE r : r \in table}
    ELSE table \cup {[path |-> p, name |-> <<>>, thumbnail |-> <<"none", 0>>, preview |-> <<>>,
                      codec |-> <<>>, width |-> 0, height |-> 0, fps |-> <<>>, tags |-> tags]}

\* UPDATE videos SET tags = ? WHERE path = ?
dbUpdateTags(table, p, tags) ==
    {IF r.path = p THEN [r EXCEPT !.tags = tags] ELSE r : r \in table}

SkippedPrefix == <<"S", "k", "i", "p", "p", "e", "d", ":", " ">>
ErrorPrefix == <<"E", "r", "r", "o", "r", ":", " ">>

\* data: null is the empty sequence, an object the sequence holding it.
Null == <<>>

\* total counted down: the candidates still to come.
ProgressRemaining(i, label, data) ==
    [current |-> current[i], total |-> Len(allFiles[i]) - current[i], file |-> label, data |-> data]

Progress(i, label, data) ==
    [current |-> current[i], total |-> Len(allFiles[i]), file |-> label, data |-> data]

filePath(i) == allFiles[i][current[i]]

\* Number of files after which the loop pauses.
ThrottleEvery == 5

Init ==
    /\ store = Catalogued
    /\ pc = [i \in Invocations |-> "idle"]
    /\ allFiles = [i \in Invocations |-> <<>>]
    /\ current = [i \in Invocations |-> 0]
    /\ exists = [i \in Invocations |-> FALSE]
    /\ sent = [i \in Invocations |-> <<>>]
    /\ prior = [i \in Invocations |-> <<>>]
    /\ videoManager = [videos |-> <<>>, filters |-> NoFilters, activeVideo |-> 0,
                       currentPreviewPath |-> 0, showUntaggedOnly |-> FALSE]
    /\ loaded = FALSE
    /\ grid = <<>>
    /\ sidebar = [format |-> Undrawn, res |-> Undrawn, tags |-> Undrawn]
    /\ sidebarTimeout = FALSE
    /\ shown = 0
    /\ inflight = <<>>
    /\ previews = {}
    /\ tagOps = <<>>
    /\ tagLog = <<>>
    /\ warning = <<>>
    /\ fps = <<>>
    /\ discovered = <<>>
    /\ destinationDir = 0
    /\ destination = <<>>
    /\ copies = <<>>
    /\ results = <<>>
    /\ received = <<>>
    /\ delivered = [i \in Invocations |-> 0]
    /\ roots = <<>>
    /\ frames = <<>>
    /\ returned = <<>>

\* The head of the for loop: the next candidate's current++ and existence
\* query, or the end of the handler.
NextCandidate(i) ==
    IF current[i] < Len(allFiles[i])
    THEN /\ current' = [current EXCEPT ![i] = @ + 1]
         /\ exists' = [exists EXCEPT ![i] = dbGet(store, allFiles[i][current[i] + 1])]
         /\ pc' = [pc EXCEPT ![i] = "awaitGet"]
    ELSE /\ pc' = [pc EXCEPT ![i] = "done"]
         /\ UNCHANGED <<current, exists>>

\* The handler sending a message of completion when discovery found nothing.
AnalyzeVideosTellsEmpty(i, paths) ==
    /\ pc[i] = "idle"
    /\ LET found == getFilesRecursively(paths)
       IN  /\ allFiles' = [allFiles EXCEPT ![i] = found]
           /\ IF found = <<>>
              THEN /\ pc' = [pc EXCEPT ![i] = "done"]
                   /\ sent' = [sent EXCEPT ![i] =
                                  <<[current |-> 0, total |-> 0, file |-> <<>>, data |-> Null]>>]
                   /\ UNCHANGED <<current, exists>>
              ELSE /\ current' = [current EXCEPT ![i] = 1]
                   /\ exists' = [exists EXCEPT ![i] = dbGet(store, found[1])]
                   /\ pc' = [pc EXCEPT ![i] = "awaitGet"]
                   /\ UNCHANGED sent
    /\ prior' = [prior EXCEPT ![i] =
                    IF \A j \in Invocations \ {i} : pc[j] = "done" THEN <<store>> ELSE <<>>]
    /\ UNCHANGED store
    /\ UNCHANGED <<rendererVars, utilVars, panelVars>>

\* ipcMain.on('analyze-videos'): discovery, then the first existence query.
AnalyzeVideos(i, paths) ==
    /\ pc[i] = "idle"
    /\ LET found == getFilesRecursively(paths)
       IN  /\ allFiles' = [allFiles EXCEPT ![i] = found]
           /\ IF found = <<>>
              THEN /\ pc' = [pc EXCEPT ![i] = "done"]
                   /\ UNCHANGED <<current, exists>>
              ELSE /\ current' = [current EXCEPT ![i] = 1]
                   /\ exists' = [exists EXCEPT ![i] = dbGet(store, found[1])]
                   /\ pc' = [pc EXCEPT ![i] = "awaitGet"]
    /\ prior' = [prior EXCEPT ![i] =
                    IF \A j \in Invocations \ {i} : pc[j] = "done" THEN <<store>> ELSE <<>>]
    /\ UNCHANGED <<store, sent>>
    /\ UNCHANGED <<rendererVars, utilVars, panelVars>>

\* The existence check dropped: every candidate is analysed.
AfterGetNoSkip(i) ==
    /\ pc[i] = "awaitGet"
    /\ pc' = [pc EXCEPT ![i] = "ffprobe"]
    /\ UNCHANGED <<store, allFiles, current, exists, sent, prior>>
    /\ UNCHANGED <<rendererVars, utilVars, panelVars>>

\* The query has answered: skip the file, or start analyzeLightweight (ffprobe).
AfterGet(i) ==
    /\ pc[i] = "awaitGet"
    /\ IF exists[i]
       THEN /\ sent' = [sent EXCEPT ![i] =
                          Append(@, Progress(i, SkippedPrefix \o basename(filePath(i)), Null))]
            /\ NextCandidate(i)
       ELSE /\ pc' = [pc EXCEPT ![i] = "ffprobe"]
            /\ UNCHANGED <<sent, current, exists>>
    /\ UNCHANGED <<store, allFiles, prior>>
    /\ UNCHANGED <<rendererVars, utilVars, panelVars>>

\* The try/catch around the whole loop: the first failure ends the batch.
CatchErrorAbort(i) ==
    /\ sent' = [sent EXCEPT ![i] =
                   Append(@, Progress(i, ErrorPrefix \o basename(filePath(i)), Null))]
    /\ pc' = [pc EXCEPT ![i] = "done"]
    /\ UNCHANGED <<current, exists>>

\* The catch block of the loop body.
CatchError(i) ==
    /\ sent' = [sent EXCEPT ![i] =
                   Append(@, Progress(i, ErrorPrefix \o basename(filePath(i)), Null))]
    /\ NextCandidate(i)

\* analyzeLightweight resolving from the ffprobe callback, with no screenshot.
FfprobeDoneResolves(i, ok) ==
    /\ pc[i] = "ffprobe"
    /\ IF ok
       THEN /\ pc' = [pc EXCEPT ![i] = "insert"]
            /\ UNCHANGED <<sent, current, exists>>
       ELSE CatchError(i)
    /\ UNCHANGED <<store, allFiles, prior>>
    /\ UNCHANGED <<rendererVars, utilVars, panelVars>>

\* The ffprobe callback: an error or no video stream rejects, otherwise the
\* screenshot is started.
FfprobeDone(i, ok) ==
    /\ pc[i] = "ffprobe"
    /\ IF ok
       THEN /\ pc' = [pc EXCEPT ![i] = "screenshots"]
            /\ UNCHANGED <<sent, current, exists>>
       ELSE CatchError(i)
    /\ UNCHANGED <<store, allFiles, prior>>
    /\ UNCHANGED <<rendererVars, utilVars, panelVars>>

\* What analyzeLightweight resolved with for the current candidate.
data(i) == VideoData(filePath(i), <<i, current[i]>>, Probed[filePath(i)])

\* The row written as soon as the probe has answered: a failing screenshot
\* leaves it behind.
ScreenshotsDoneRowFirst(i, ok) ==
    /\ pc[i] = "screenshots"
    /\ IF ok
       THEN /\ pc' = [pc EXCEPT ![i] = "insert"]
            /\ UNCHANGED <<sent, current, exists, store>>
       ELSE /\ CatchError(i)
            /\ store' = store \cup {data(i)}
    /\ UNCHANGED <<allFiles, prior>>
    /\ UNCHANGED <<rendererVars, utilVars, panelVars>>

\* The screenshot's 'end' resolves the promise, its 'error' rejects it.
ScreenshotsDone(i, ok) ==
    /\ pc[i] = "screenshots"
    /\ IF ok
       THEN /\ pc' = [pc EXCEPT ![i] = "insert"]
            /\ UNCHANGED <<sent, current, exists>>
       ELSE CatchError(i)
    /\ UNCHANGED <<store, allFiles, prior>>
    /\ UNCHANGED <<rendererVars, utilVars, panelVars>>

\* The progress message sent without the row having been written.
InsertSkipped(i, writeOk) ==
    /\ pc[i] = "insert"
    /\ IF writeOk /\ ~primaryKeyConflict(store, data(i))
       THEN /\ pc' = [pc EXCEPT ![i] = "awaitRun"]
            /\ UNCHANGED <<sent, current, exists, store>>
       ELSE /\ CatchError(i)
            /\ UNCHANGED store
    /\ UNCHANGED <<allFiles, prior>>
    /\ UNCHANGED <<rendererVars, utilVars, panelVars>>

\* db.run(INSERT INTO videos ...): throws on a key conflict or when the
\* write itself fails.
Insert(i, writeOk) ==
    /\ pc[i] = "insert"
    /\ IF writeOk /\ ~primaryKeyConflict(store, data(i))
       THEN /\ store' = store \cup {data(i)}
            /\ pc' = [pc EXCEPT ![i] = "awaitRun"]
            /\ UNCHANGED <<sent, current, exists>>
       ELSE /\ CatchError(i)
            /\ UNCHANGED store
    /\ UNCHANGED <<allFiles, prior>>
    /\ UNCHANGED <<rendererVars, utilVars, panelVars>>

\* After the insert: the progress message with the record, then the pause
\* on every fifth file.
AfterInsert(i) ==
    /\ pc[i] = "awaitRun"
    /\ sent' = [sent EXCEPT ![i] = Append(@, Progress(i, data(i).name, <<data(i)>>))]
    /\ IF current[i] % ThrottleEvery = 0
       THEN /\ pc' = [pc EXCEPT ![i] = "pause"]
            /\ UNCHANGED <<current, exists>>
       ELSE NextCandidate(i)
    /\ UNCHANGED <<store, allFiles, prior>>
    /\ UNCHANGED <<rendererVars, utilVars, panelVars>>

\* The timer's promise never resolved.
PauseForever(i) ==
    /\ pc[i] = "pause"
    /\ UNCHANGED vars

\* The 30 ms timer has fired.
PauseDone(i) ==
    /\ pc[i] = "pause"
    /\ NextCandidate(i)
    /\ UNCHANGED <<store, allFiles, sent, prior>>
    /\ UNCHANGED <<rendererVars, utilVars, panelVars>>

\* ipcMain.handle('update-tags')
UpdateTags(p, tags) ==
    /\ store' = dbUpdateTags(store, p, tags)
    /\ UNCHANGED <<pc, allFiles, current, exists, sent, prior>>
    /\ UNCHANGED <<rendererVars, utilVars, panelVars>>

Step(i) ==
    \/ AfterGet(i)
    \/ \E ok \in BOOLEAN : FfprobeDone(i, ok)
    \/ \E ok \in BOOLEAN : ScreenshotsDone(i, ok)
    \/ \E writeOk \in BOOLEAN : Insert(i, writeOk)
    \/ AfterInsert(i)
    \/ PauseDone(i)

Next ==
    \/ \E i \in Invocations, paths \in DropLists : AnalyzeVideos(i, paths)
    \/ \E i \in Invocations : Step(i)
    \/ \E p \in TagTargets, tags \in TagValues : UpdateTags(p, tags)

Spec == Init /\ [][Next]_vars

FairSpec == Spec /\ \A i \in Invocations : WF_vars(Step(i))

\* ---------------------------------------------------------------- renderer
\* window.onload: the rows of get-videos, then the first render.
OnLoad(rows) ==
    /\ ~loaded
    /\ loaded' = TRUE
    /\ videoManager' = [videoManager EXCEPT !.videos = rows]
    /\ grid' = render(videoManager')
    /\ sidebarTimeout' = TRUE
    /\ UNCHANGED <<mainVars, utilVars, panelVars, sidebar>>

\* The zone drop without its test for a term already in the list.
DropOnZoneUntested(type, tag) ==
    /\ tag # <<>>
    /\ Len(videoManager.filters[type]) < 2
    /\ videoManager' = [videoManager EXCEPT !.filters[type] = Append(@, tag)]
    /\ grid' = render(videoManager')
    /\ sidebarTimeout' = TRUE
    /\ UNCHANGED <<mainVars, loaded, utilVars, panelVars, sidebar>>

\* The drop handler of a filter zone, with updateFilterUI and its render.
DropOnZone(type, tag) ==
    /\ tag # <<>>
    /\ ~includes(videoManager.filters[type], tag)
    /\ videoManager' = [videoManager EXCEPT !.filters[type] = Append(@, tag)]
    /\ grid' = render(videoManager')
    /\ sidebarTimeout' = TRUE
    /\ UNCHANGED <<mainVars, loaded, utilVars, panelVars, sidebar>>

\* removeFilter
RemoveFilter(type, tag) ==
    /\ videoManager' =
           [videoManager EXCEPT !.filters[type] = SelectSeq(@, LAMBDA t : t # tag)]
    /\ grid' = render(videoManager')
    /\ sidebarTimeout' = TRUE
    /\ UNCHANGED <<mainVars, loaded, utilVars, panelVars, sidebar>>

\* clearFilters switching the untagged-only flag off as well.
ClearFiltersAndFlag ==
    /\ videoManager' = [videoManager EXCEPT !.filters = NoFilters, !.showUntaggedOnly = FALSE]
    /\ grid' = render(videoManager')
    /\ sidebarTimeout' = TRUE
    /\ UNCHANGED <<mainVars, loaded, utilVars, panelVars, sidebar>>

\* clearFilters
ClearFilters ==
    /\ videoManager' = [videoManager EXCEPT !.filters = NoFilters]
    /\ grid' = render(videoManager')
    /\ sidebarTimeout' = TRUE
    /\ UNCHANGED <<mainVars, loaded, utilVars, panelVars, sidebar>>

\* toggleUntaggedFilter
ToggleUntaggedFilter ==
    /\ videoManager' = [videoManager EXCEPT !.showUntaggedOnly = ~@]
    /\ grid' = render(videoManager')
    /\ sidebarTimeout' = TRUE
    /\ UNCHANGED <<mainVars, loaded, utilVars, panelVars, sidebar>>

\* The timer of render has fired: updateSidebar runs.
UpdateSidebar ==
    /\ sidebarTimeout
    /\ sidebarTimeout' = FALSE
    /\ sidebar' = updateSidebar(videoManager, sidebar)
    /\ UNCHANGED <<mainVars, utilVars, panelVars, videoManager, loaded, grid>>

RendererNext ==
    \/ \E rows \in LoadedLists : OnLoad(rows)
    \/ \E type \in FilterTypes, tag \in Terms : DropOnZone(type, tag)
    \/ \E type \in FilterTypes, tag \in Terms : RemoveFilter(type, tag)
    \/ ClearFilters
    \/ ToggleUntaggedFilter

RendererSpec == Init /\ [][RendererNext]_vars

\* The sidebar: the timer that render arms, and a handler that renders again.
SidebarNext ==
    \/ \E rows \in LoadedLists : OnLoad(rows)
    \/ UpdateSidebar
    \/ ToggleUntaggedFilter

SidebarSpec == Init /\ [][SidebarNext]_vars

\* ------------------------------------------------------------ detail panel
\* An element of a sequence taken out.
without(arr, j) == SubSeq(arr, 1, j - 1) \o SubSeq(arr, j + 1, Len(arr))

\* showDetail after `await cleanupPreview()`: the preview of call n is asked
\* for, or the video is played from its own file and the panel is finished
\* with renderTags and render.
AfterCleanup(k, n, this, rest) ==
    /\ videoManager' = this
    /\ IF needsPreview(this.videos[k])
       THEN /\ inflight' = Append(rest, [op |-> "generate", video |-> k, call |-> n, path |-> n])
            /\ UNCHANGED <<grid, sidebarTimeout>>
       ELSE /\ inflight' = rest
            /\ grid' = render(this)
            /\ sidebarTimeout' = TRUE

\* showDetail up to its first await that waits: the video becomes active and
\* a current preview is handed to delete-preview; without one cleanupPreview
\* returns at once and the function runs on.
ShowDetail(k) ==
    /\ k \in 1..Len(videoManager.videos)
    /\ LET this == [videoManager EXCEPT !.activeVideo = k]
           invokes == \/ videoManager.currentPreviewPath # 0
                      \/ needsPreview(videoManager.videos[k])
       IN  /\ invokes => shown < MaxDetails
           /\ shown' = IF invokes THEN shown + 1 ELSE shown
           /\ IF videoManager.currentPreviewPath # 0
              THEN /\ videoManager' = this
                   /\ inflight' = Append(inflight, [op |-> "delete", video |-> k,
                                                    call |-> shown + 1,
                                                    path |-> videoManager.currentPreviewPath])
                   /\ UNCHANGED <<grid, sidebarTimeout>>
              ELSE AfterCleanup(k, shown + 1, this, inflight)
    /\ UNCHANGED <<mainVars, utilVars, loaded, sidebar, previews, tagOps, tagLog, warning>>

\* delete-preview has answered (the handler is synchronous, so the oldest
\* first): the file is unlinked, cleanupPreview sets currentPreviewPath to
\* null, and a showDetail that waited for it runs on.
DeletePreviewDone(j) ==
    /\ j \in 1..Len(inflight)
    /\ inflight[j].op = "delete"
    /\ \A i \in 1..(j - 1) : inflight[i].op # "delete"
    /\ previews' = previews \ {inflight[j].path}
    /\ LET this == [videoManager EXCEPT !.currentPreviewPath = 0]
       IN  IF inflight[j].video = 0
           THEN /\ videoManager' = this
                /\ inflight' = without(inflight, j)
                /\ UNCHANGED <<grid, sidebarTimeout>>
           ELSE AfterCleanup(inflight[j].video, inflight[j].call, this, without(inflight, j))
    /\ UNCHANGED <<mainVars, utilVars, loaded, sidebar, shown, tagOps, tagLog, warning>>

\* generate-preview has answered: ffmpeg has written the file and showDetail
\* keeps its path, or it has failed; renderTags and render follow either way.
GeneratePreviewDone(j, ok) ==
    /\ j \in 1..Len(inflight)
    /\ inflight[j].op = "generate"
    /\ previews' = IF ok THEN previews \cup {inflight[j].path} ELSE previews
    /\ videoManager' =
           IF ok THEN [videoManager EXCEPT !.currentPreviewPath = inflight[j].path] ELSE videoManager
    /\ inflight' = without(inflight, j)
    /\ grid' = render(videoManager')
    /\ sidebarTimeout' = TRUE
    /\ UNCHANGED <<mainVars, utilVars, loaded, sidebar, shown, tagOps, tagLog, warning>>

\* togglePanel: cleanupPreview is started and not awaited.
TogglePanel ==
    /\ videoManager.currentPreviewPath # 0 => Len(inflight) < MaxDetails
    /\ inflight' =
           IF videoManager.currentPreviewPath # 0
           THEN Append(inflight, [op |-> "delete", video |-> 0, call |-> 0,
                                  path |-> videoManager.currentPreviewPath])
           ELSE inflight
    /\ videoManager' = [videoManager EXCEPT !.activeVideo = 0]
    /\ grid' = render(videoManager')
    /\ sidebarTimeout' = TRUE
    /\ UNCHANGED <<mainVars, utilVars, loaded, sidebar, shown, previews, tagOps, tagLog, warning>>

PreviewNext ==
    \/ OnLoad(CataloguedRows)
    \/ \E k \in PreviewCards : ShowDetail(k)
    \/ \E j \in 1..Len(inflight) : DeletePreviewDone(j)
    \/ \E j \in 1..Len(inflight), ok \in BOOLEAN : GeneratePreviewDone(j, ok)
    \/ TogglePanel

PreviewSpec == Init /\ [][PreviewNext]_vars

\* --------------------------------------------------------------------- tags
\* The check of tagArray.includes left out: every tag is sent.
addTagToVideoUnchecked(k, tag, ok) ==
    LET video == videoManager.videos[k]
        tagArray == tagArrayOf(video)
        newTagsStr == join(Append(tagArray, tag), ",")
        op == [kind |-> "add", video |-> k, tag |-> tag, before |-> video.tags,
               tags |-> newTagsStr, ok |-> ok]
    IN  /\ Len(tagLog) < MaxOps
        /\ UNCHANGED warning
        /\ store' = IF ok THEN dbUpdateTags(store, video.path, newTagsStr) ELSE store
        /\ tagOps' = Append(tagOps, op)
        /\ tagLog' = Append(tagLog, op)

\* addTagToVideo up to its await: a tag the video has is refused with a
\* notification; otherwise update-tags is invoked with the joined tags and the
\* handler runs the UPDATE, which succeeds or throws.
addTagToVideo(k, tag, ok) ==
    LET video == videoManager.videos[k]
        tagArray == tagArrayOf(video)
        newTagsStr == join(Append(tagArray, tag), ",")
        op == [kind |-> "add", video |-> k, tag |-> tag, before |-> video.tags,
               tags |-> newTagsStr, ok |-> ok]
    IN  IF includes(tagArray, tag)
        THEN /\ warning' = <<[video |-> k, tag |-> tag]>>
             /\ UNCHANGED <<store, tagOps, tagLog>>
        ELSE /\ Len(tagLog) < MaxOps
             /\ UNCHANGED warning
             /\ store' = IF ok THEN dbUpdateTags(store, video.path, newTagsStr) ELSE store
             /\ tagOps' = Append(tagOps, op)
             /\ tagLog' = Append(tagLog, op)

\* addNewTag: Enter in the tag input while a video is active.
AddNewTag(value, ok) ==
    /\ videoManager.activeVideo # 0
    /\ trim(value) # <<>>
    /\ addTagToVideo(videoManager.activeVideo, trim(value), ok)
    /\ UNCHANGED <<pc, allFiles, current, exists, sent, prior, utilVars, rendererVars,
                   shown, inflight, previews>>

\* The drop handler of the panel's tag area.
DropOnPanel(tag, ok) ==
    /\ tag # <<>>
    /\ videoManager.activeVideo # 0
    /\ addTagToVideo(videoManager.activeVideo, tag, ok)
    /\ UNCHANGED <<pc, allFiles, current, exists, sent, prior, utilVars, rendererVars,
                   shown, inflight, previews>>

\* removeTagFromVideo up to its await, called by the cross of a badge.
RemoveTagFromVideo(tag, ok) ==
    /\ videoManager.activeVideo # 0
    /\ LET k == videoManager.activeVideo
           video == videoManager.videos[k]
           newTagsStr == join(tagArrayWithout(video, tag), ",")
           op == [kind |-> "remove", video |-> k, tag |-> tag, before |-> video.tags,
                  tags |-> newTagsStr, ok |-> ok]
       IN  /\ includes(renderTags(video), tag)
           /\ Len(tagLog) < MaxOps
           /\ store' = IF ok THEN dbUpdateTags(store, video.path, newTagsStr) ELSE store
           /\ tagOps' = Append(tagOps, op)
           /\ tagLog' = Append(tagLog, op)
    /\ UNCHANGED <<pc, allFiles, current, exists, sent, prior, utilVars, rendererVars,
                   shown, inflight, previews, warning>>

\* addTagToVideo after its await: the video takes the new tags and the
\* sidebar is updated; a rejected invocation only shows an error.
AddTagResume ==
    /\ tagOps # <<>>
    /\ Head(tagOps).kind = "add"
    /\ tagOps' = Tail(tagOps)
    /\ IF Head(tagOps).ok
       THEN /\ videoManager' =
                   [videoManager EXCEPT !.videos[Head(tagOps).video].tags = Head(tagOps).tags]
            /\ sidebar' = updateSidebar(videoManager', sidebar)
       ELSE UNCHANGED <<videoManager, sidebar>>
    /\ UNCHANGED <<mainVars, utilVars, loaded, grid, sidebarTimeout, shown, inflight, previews,
                   tagLog, warning>>

\* removeTagFromVideo after its await: the video that is active now takes
\* the new tags; with no active video the assignment throws and is caught.
RemoveTagResume ==
    /\ tagOps # <<>>
    /\ Head(tagOps).kind = "remove"
    /\ tagOps' = Tail(tagOps)
    /\ IF Head(tagOps).ok /\ videoManager.activeVideo # 0
       THEN videoManager' =
                [videoManager EXCEPT !.videos[videoManager.activeVideo].tags = Head(tagOps).tags]
       ELSE UNCHANGED videoManager
    /\ UNCHANGED <<mainVars, utilVars, loaded, grid, sidebar, sidebarTimeout, shown, inflight,
                   previews, tagLog, warning>>

TagNext ==
    \/ OnLoad(CataloguedRows)
    \/ \E k \in TagCards : ShowDetail(k)
    \/ TogglePanel
    \/ \E value \in TypedValues, ok \in BOOLEAN : AddNewTag(value, ok)
    \/ \E tag \in DroppedTexts, ok \in BOOLEAN : DropOnPanel(tag, ok)
    \/ \E tag \in BadgeTexts, ok \in BOOLEAN : RemoveTagFromVideo(tag, ok)
    \/ AddTagResume
    \/ RemoveTagResume

TagSpec == Init /\ [][TagNext]_vars

\* ------------------------------------------------------------ progress sink
\* Array.prototype.findIndex on the paths of the list, 0 standing for -1.
findIndex(videos, p) ==
    IF \E k \in 1..Len(videos) : videos[k].path = p
    THEN CHOOSE k \in 1..Len(videos) :
             videos[k].path = p /\ \A j \in 1..(k - 1) : videos[j].path # p
    ELSE 0

\* Array.prototype.unshift
unshift(arr, x) == <<x>> \o arr

\* The places kept in pending calls after unshift has moved every video down
\* by one; 0 stands for no video.
moved(calls) ==
    [j \in DOMAIN calls |-> [calls[j] EXCEPT !.video = IF @ = 0 THEN 0 ELSE @ + 1]]

\* Whether a call still running holds the video at place k, or it is the
\* active one.
held(k) ==
    \/ videoManager.activeVideo = k
    \/ \E j \in 1..Len(inflight) : inflight[j].video = k
    \/ \E j \in 1..Len(tagOps) : tagOps[j].video = k

\* The onProgress callback with unshift for every record.
OnProgressUnshift(e) ==
    /\ loaded
    /\ received' = <<e>>
    /\ IF e.data # Null
       THEN /\ videoManager' = [videoManager EXCEPT
                                    !.videos = unshift(@, e.data[1]),
                                    !.activeVideo = IF @ = 0 THEN 0 ELSE @ + 1]
            /\ inflight' = moved(inflight)
            /\ tagOps' = moved(tagOps)
            /\ tagLog' = moved(tagLog)
            /\ warning' = moved(warning)
            /\ grid' = render(videoManager')
            /\ sidebarTimeout' = TRUE
       ELSE UNCHANGED <<videoManager, inflight, tagOps, tagLog, warning, grid, sidebarTimeout>>
    /\ UNCHANGED <<mainVars, fps, discovered, exportVars, walkVars, loaded, sidebar, shown,
                   previews>>
    /\ UNCHANGED delivered

\* The onProgress callback: the progress element shows the event; a record
\* takes the place of the video with its path or goes to the front of the
\* list, and the grid is rendered. The callback is registered when the script
\* is read, and events come once a drop has started an analysis, which the
\* handlers set up at load make possible. A video that is active or held by a
\* call still running keeps its old object there; that case is left out.
onProgress(e) ==
    /\ loaded
    /\ received' = <<e>>
    /\ IF e.data # Null
       THEN LET existingIndex == findIndex(videoManager.videos, e.data[1].path)
            IN  IF existingIndex # 0
                THEN /\ ~held(existingIndex)
                     /\ videoManager' = [videoManager EXCEPT !.videos[existingIndex] = e.data[1]]
                     /\ grid' = render(videoManager')
                     /\ sidebarTimeout' = TRUE
                     /\ UNCHANGED <<inflight, tagOps, tagLog, warning>>
                ELSE /\ videoManager' = [videoManager EXCEPT
                                             !.videos = unshift(@, e.data[1]),
                                             !.activeVideo = IF @ = 0 THEN 0 ELSE @ + 1]
                     /\ inflight' = moved(inflight)
                     /\ tagOps' = moved(tagOps)
                     /\ tagLog' = moved(tagLog)
                     /\ warning' = moved(warning)
                     /\ grid' = render(videoManager')
                     /\ sidebarTimeout' = TRUE
       ELSE UNCHANGED <<videoManager, inflight, tagOps, tagLog, warning, grid, sidebarTimeout>>
    /\ UNCHANGED <<mainVars, fps, discovered, exportVars, walkVars, loaded, sidebar, shown,
                   previews>>

\* The callback called with an event of the sink's own choice.
OnProgress(e) ==
    /\ onProgress(e)
    /\ UNCHANGED delivered

\* An event as the analyze-videos handler sends it for the only candidate of
\* a drop.
EventOf(label, record) == [current |-> 1, total |-> 1, file |-> label, data |-> record]

\* The events of the sink: the record of a new file, the record of a file
\* whose row was deleted from the table after the load, a skip and a failure.
ProgressEvents ==
    {EventOf(basename(p), <<VideoData(p, <<"i1", 1>>, Probed[p])>>) : p \in {PathW, PathT, PathP}}
    \cup {EventOf(SkippedPrefix \o NameP, Null), EventOf(ErrorPrefix \o NameW, Null)}

SinkNext ==
    \/ \E rows \in LoadedLists \cup {CataloguedRows} : OnLoad(rows)
    \/ \E e \in ProgressEvents : OnProgress(e)

SinkSpec == Init /\ [][SinkNext]_vars

\* --------------------------------------------------------------- the view
\* The operations after which the grid is looked at: tags added and removed
\* in the panel, terms dropped on the filter zones and taken out, the
\* untagged-only switch, and progress events.
ViewTerms == {<<"y">>}
ViewZones == {"and"}
ViewCards == {1}
ViewEvents == {e \in ProgressEvents : e.data # Null => e.data[1].path = PathW}

ViewNext ==
    \/ OnLoad(CataloguedRows)
    \/ \E k \in ViewCards : ShowDetail(k)
    \/ \E type \in ViewZones, tag \in ViewTerms : DropOnZone(type, tag)
    \/ \E type \in ViewZones, tag \in ViewTerms : RemoveFilter(type, tag)
    \/ ClearFilters
    \/ ToggleUntaggedFilter
    \/ \E value \in ViewTerms : AddNewTag(value, TRUE)
    \/ \E tag \in ViewTerms : RemoveTagFromVideo(tag, TRUE)
    \/ AddTagResume
    \/ RemoveTagResume
    \/ \E e \in ViewEvents : OnProgress(e)

ViewSpec == Init /\ [][ViewNext]_vars

\* ------------------------------------------------------------ filter lists
\* The containers of the sidebar.
Containers == {"format", "res", "tags"}

\* btn.onclick of the j-th tag drawn in a container of the sidebar: the tag
\* goes to the AND list unless it is there, with updateFilterUI and its render.
ClickTag(container, j) ==
    /\ j \in 1..Len(sidebar[container].items)
    /\ LET tag == sidebar[container].items[j]
       IN  /\ ~includes(videoManager.filters.and, tag)
           /\ videoManager' = [videoManager EXCEPT !.filters.and = Append(@, tag)]
    /\ grid' = render(videoManager')
    /\ sidebarTimeout' = TRUE
    /\ UNCHANGED <<mainVars, loaded, utilVars, panelVars, sidebar>>

\* Clicks in the sidebar, drops on the zones, the crosses of the terms shown
\* in the zones and the clear button.
FilterNext ==
    \/ OnLoad(ListOfTwo)
    \/ UpdateSidebar
    \/ \E container \in Containers, j \in 1..MaxLen : ClickTag(container, j)
    \/ \E type \in FilterTypes, tag \in Terms : DropOnZone(type, tag)
    \/ \E type \in FilterTypes :
           \E j \in 1..Len(videoManager.filters[type]) :
               RemoveFilter(type, videoManager.filters[type][j])
    \/ ClearFilters

FilterSpec == Init /\ [][FilterNext]_vars

\* ------------------------------------------------- the traversal, by calls
\* getFilesRecursively is called on a list of paths; one traversal is followed
\* per behaviour.
WalkStart(paths) ==
    /\ roots = <<>>
    /\ roots' = <<paths>>
    /\ frames' = <<[paths |-> paths, results |-> <<>>]>>
    /\ UNCHANGED <<mainVars, rendererVars, panelVars, fps, discovered, exportVars, sinkVars,
                   returned>>

\* One turn of the innermost forEach, or its end: a path that does not exist
\* is passed over, a directory starts a call on its joined entries, a file
\* with a video extension is pushed; the call whose paths are used up returns
\* its results, which the caller appends to its own with concat.
WalkStep ==
    /\ frames # <<>>
    /\ LET top == frames[Len(frames)]
           callers == SubSeq(frames, 1, Len(frames) - 1)
       IN  IF top.paths = <<>>
           THEN IF callers = <<>>
                THEN /\ frames' = <<>>
                     /\ returned' = <<top.results>>
                ELSE /\ frames' = [callers EXCEPT ![Len(callers)].results = @ \o top.results]
                     /\ UNCHANGED returned
           ELSE LET p == Head(top.paths)
                    rest == [top EXCEPT !.paths = Tail(@)]
                IN  /\ UNCHANGED returned
                    /\ IF ~existsSync(p) THEN frames' = Append(callers, rest)
                       ELSE IF isDirectory(p)
                       THEN frames' =
                                Append(Append(callers, rest),
                                       [paths |-> [k \in 1..Len(readdirSync(p)) |->
                                                      pathJoin(p, readdirSync(p)[k])],
                                        results |-> <<>>])
                       ELSE IF includes(VIDEO_EXTS, toLowerCase(extname(p)))
                       THEN frames' = Append(callers, [rest EXCEPT !.results = Append(@, p)])
                       ELSE frames' = Append(callers, rest)
    /\ UNCHANGED <<mainVars, rendererVars, panelVars, fps, discovered, exportVars, sinkVars, roots>>

\* The paths traversals are started on: the directory with the cycle, the
\* link itself, the tree of two levels, two files and a path that does not
\* exist.
WalkNames == {PathRing, PathLoop, PathTop, PathW, PathN, PathGone}

WalkNext ==
    \/ \E paths \in SeqsUpTo(WalkNames, MaxPaths) : WalkStart(paths)
    \/ WalkStep

WalkSpec == Init /\ [][WalkNext]_vars

\* The calls run without interruption: the function is synchronous.
FairWalkSpec == WalkSpec /\ WF_vars(WalkStep)

\* ------------------------------------------------- from the drop to the list
\* The drop handler of the document, set up at load: the paths of the dropped
\* files go to analyze-videos.
Drop(i, paths) ==
    /\ loaded
    /\ Len(paths) > 0
    /\ AnalyzeVideos(i, paths)

\* A message counted as handed over without the callback being called.
DeliverUnheard(i) ==
    /\ delivered[i] < Len(sent[i])
    /\ delivered' = [delivered EXCEPT ![i] = @ + 1]
    /\ UNCHANGED <<mainVars, rendererVars, panelVars, fps, discovered, exportVars, walkVars,
                   received>>

\* The next message of an invocation reaches the renderer and the callback
\* handles it. The messages of one invocation arrive in the order they were
\* sent.
Deliver(i) ==
    /\ delivered[i] < Len(sent[i])
    /\ delivered' = [delivered EXCEPT ![i] = @ + 1]
    /\ onProgress(sent[i][delivered[i] + 1])

\* The drops of the pipeline: a new file, two new files, and the directory
\* with four catalogued files and a fifth.
PipeDrops == {<<PathW>>, <<PathT, PathW>>, <<PathLib>>}

PipeNext ==
    \/ OnLoad(CataloguedRows)
    \/ \E i \in Invocations, paths \in PipeDrops : Drop(i, paths)
    \/ \E i \in Invocations : Step(i)
    \/ \E i \in Invocations : Deliver(i)

PipeSpec == Init /\ [][PipeNext]_vars

\* ------------------------------------------------------- frame-rate parsing
\* analyzeLightweight handing a stream's r_frame_rate to parseFrameRate; one
\* stream is followed per behaviour.
ParseFrameRate(rFrameRate) ==
    /\ fps = <<>>
    /\ fps' = <<[r_frame_rate |-> rFrameRate, fps |-> parseFrameRate(rFrameRate)]>>
    /\ UNCHANGED <<mainVars, rendererVars, panelVars, sinkVars, walkVars, discovered, exportVars>>

FrameRateNext == \E rFrameRate \in Rates : ParseFrameRate(rFrameRate)

FrameRateSpec == Init /\ [][FrameRateNext]_vars

\* ------------------------------------------------------------------- export
\* select-export-directory: the dialog answered with a directory.
SelectExportDirectory(d) ==
    /\ destinationDir = 0
    /\ destinationDir' = d
    /\ destination' = ExportDirs[d]
    /\ UNCHANGED <<mainVars, rendererVars, panelVars, sinkVars, walkVars, fps, discovered, copies, results>>

\* The export-files handler of ipc-handlers.cjs, which calls exportFiles of
\* file-utils.cjs; one export is followed per behaviour.
ExportFiles(files, outcomes) ==
    /\ destinationDir # 0
    /\ results = <<>>
    /\ LET out == exportFiles(files, destination, outcomes)
       IN  /\ destination' = out.dir
           /\ copies' = out.copies
           /\ results' = <<[site |-> "ipc-handlers", files |-> files, results |-> out.results]>>
    /\ UNCHANGED <<mainVars, rendererVars, panelVars, sinkVars, walkVars, fps, discovered, destinationDir>>

\* The export-files handler of main.cjs, which holds the same loop.
MainExportFiles(files, outcomes) ==
    /\ destinationDir # 0
    /\ results = <<>>
    /\ LET out == exportFiles(files, destination, outcomes)
       IN  /\ destination' = out.dir
           /\ copies' = out.copies
           /\ results' = <<[site |-> "main", files |-> files, results |-> out.results]>>
    /\ UNCHANGED <<mainVars, rendererVars, panelVars, sinkVars, walkVars, fps, discovered, destinationDir>>

ExportNext ==
    \/ \E d \in 1..Len(ExportDirs) : SelectExportDirectory(d)
    \/ \E files \in ExportLists : \E outcomes \in OutcomesOf(files) : ExportFiles(files, outcomes)
    \/ \E files \in ExportLists : \E outcomes \in OutcomesOf(files) : MainExportFiles(files, outcomes)

ExportSpec == Init /\ [][ExportNext]_vars

\* ---------------------------------------------------------------- discovery
\* The traversal as the analyze-videos handler of ipc-handlers.cjs starts it;
\* one traversal is followed per behaviour.
Discover(paths) ==
    /\ discovered = <<>>
    /\ discovered' = <<[site |-> "ipc-handlers", paths |-> paths,
                        files |-> getFilesRecursively(paths)]>>
    /\ UNCHANGED <<mainVars, rendererVars, panelVars, sinkVars, walkVars, fps, exportVars>>

\* The traversal as the analyze-videos handler of main.cjs starts it.
MainDiscover(paths) ==
    /\ discovered = <<>>
    /\ discovered' = <<[site |-> "main", paths |-> paths,
                        files |-> mainGetFilesRecursively(paths)]>>
    /\ UNCHANGED <<mainVars, rendererVars, panelVars, sinkVars, walkVars, fps, exportVars>>

DiscoveryNext ==
    \/ \E paths \in PathLists : Discover(paths)
    \/ \E paths \in PathLists : MainDiscover(paths)

DiscoverySpec == Init /\ [][DiscoveryNext]_vars

\* ------------------------------------------------------------------ claims
Paths(table) == {r.path : r \in table}

\* A row without its tags: the eight fields tagging never writes.
Fixed(r) == [r EXCEPT !.tags = <<>>]

IsSkipped(e, p) == e.file = SkippedPrefix \o basename(p) /\ e.data = Null
IsError(e, p) == e.file = ErrorPrefix \o basename(p) /\ e.data = Null
IsRecord(e, p) == e.data # Null /\ e.data[1].path = p /\ e.file = e.data[1].name

\* Invocation j ran to its end over the candidates of i, having started after
\* i (and every other invocation) had ended.
SecondRun(i, j) ==
    /\ i # j
    /\ pc[i] = "done" /\ pc[j] = "done"
    /\ prior[j] # <<>>
    /\ allFiles[i] = allFiles[j]
    /\ allFiles[j] # <<>>

\* C1 as the spec states it: a second run in sequence over the same files
\* leaves the table as the first run left it (tags, which only update-tags
\* writes, set aside) and sends only "Skipped: <basename>" messages with no data.
C1_SecondRunOnlySkips ==
    \A i, j \in Invocations :
        SecondRun(i, j) =>
            /\ {Fixed(r) : r \in store} = {Fixed(r) : r \in prior[j][1]}
            /\ Len(sent[j]) = Len(allFiles[j])
            /\ \A k \in 1..Len(sent[j]) : IsSkipped(sent[j][k], allFiles[j][k])

\* C1 amended: the second run changes no row the table held when the first
\* run ended, sends a Skipped message with no data for every candidate whose
\* path the table held by then, and treats every other candidate (one whose
\* extraction or insert failed in the first run) as new: an Error message, or a
\* row and its message.
C1_SecondRunSkipsStored ==
    \A i, j \in Invocations :
        SecondRun(i, j) =>
            /\ \A r \in prior[j][1] : \E q \in store : Fixed(q) = Fixed(r)
            /\ Len(sent[j]) = Len(allFiles[j])
            /\ \A k \in 1..Len(sent[j]) :
                   LET p == allFiles[j][k]
                       e == sent[j][k]
                   IN  IF p \in Paths(prior[j][1])
                       THEN IsSkipped(e, p)
                       ELSE \/ IsError(e, p)
                            \/ IsRecord(e, p) /\ \E q \in store : Fixed(q) = Fixed(e.data[1])
                            \/ IsSkipped(e, p) /\ \E m \in 1..(k - 1) : IsRecord(sent[j][m], p)
            /\ Paths(store) =
                   Paths(prior[j][1]) \cup
                       {allFiles[j][k] : k \in {m \in 1..Len(sent[j]) : sent[j][m].data # Null}}

\* A second run that skipped a file the first run had inserted.
C1_Witness ==
    \E i, j \in Invocations :
        /\ SecondRun(i, j)
        /\ \E k \in 1..Len(sent[i]) :
               /\ sent[i][k].data # Null
               /\ k <= Len(sent[j]) /\ IsSkipped(sent[j][k], allFiles[j][k])

\* The candidates invocation i has finished with.
Finished(i) ==
    IF pc[i] \in {"idle", "done"} THEN Len(allFiles[i])
    ELSE IF pc[i] = "pause" THEN current[i]
    ELSE current[i] - 1

\* Invocation i takes a step.
Moves(i) == <<pc[i], current[i], sent[i]>>' # <<pc[i], current[i], sent[i]>>

\* Invocation i's step ends its current candidate in failure: it leaves the
\* extraction or the insert with no row written.
Fails(i) ==
    /\ pc[i] \in {"ffprobe", "screenshots", "insert"}
    /\ Moves(i)
    /\ pc'[i] \notin {"screenshots", "insert", "awaitRun"}

\* C2: a candidate whose extraction or insert fails gets exactly one message,
\* "Error: <basename>" with no data, and the loop goes on to the next candidate
\* (or ends after the last one); every invocation has sent one message per
\* candidate it has finished with, so n candidates make n messages.
C2_FailureIsolation ==
    /\ [](\A i \in Invocations : Len(sent[i]) = Finished(i))
    /\ [][\A i \in Invocations :
             Fails(i) =>
                 /\ sent'[i] = Append(sent[i], [current |-> current[i],
                                                total |-> Len(allFiles[i]),
                                                file |-> ErrorPrefix \o basename(filePath(i)),
                                                data |-> Null])
                 /\ store' = store
                 /\ IF current[i] < Len(allFiles[i])
                    THEN pc'[i] = "awaitGet" /\ current'[i] = current[i] + 1
                    ELSE pc'[i] = "done"]_vars

\* A batch that ended with an Error message in the middle and a row after it.
C2_Witness ==
    \E i \in Invocations :
        /\ pc[i] = "done"
        /\ \E k, m \in 1..Len(sent[i]) :
               /\ k < m
               /\ IsError(sent[i][k], allFiles[i][k])
               /\ IsRecord(sent[i][m], allFiles[i][m])

UniquePaths == \A r, q \in store : r.path = q.path => r = q

\* C3: the table never holds two rows with one path, and an insert of a path
\* the table holds (the other invocation wrote it after this one's existence
\* query) fails, leaving the table as it was.
C3_OneRowPerPath ==
    /\ []UniquePaths
    /\ [][\A i \in Invocations :
             (pc[i] = "insert" /\ Moves(i) /\ filePath(i) \in Paths(store)) =>
                 (store' = store /\ pc'[i] # "awaitRun")]_vars

\* An invocation about to insert a path the other one has inserted meanwhile.
C3_Witness ==
    \E i, j \in Invocations :
        /\ i # j
        /\ pc[i] = "insert"
        /\ \E r \in store : r.path = filePath(i) /\ r.thumbnail[1] = j

\* C4 as the spec states it: no invocation is ever about to insert a path the
\* table holds, so that no insert fails on the key.
C4_CheckAndInsertAtomic ==
    \A i \in Invocations : pc[i] = "insert" => filePath(i) \notin Paths(store)

\* C5: the k-th message of an invocation carries current = k and
\* total = the number of candidates, it is about the k-th candidate, and the
\* invocation has sent exactly n messages when it ends.
C5_CurrentAndTotal ==
    \A i \in Invocations :
        /\ Len(sent[i]) <= Len(allFiles[i])
        /\ pc[i] = "done" => Len(sent[i]) = Len(allFiles[i])
        /\ \A k \in 1..Len(sent[i]) :
               /\ sent[i][k].current = k
               /\ sent[i][k].total = Len(allFiles[i])
               /\ \/ IsSkipped(sent[i][k], allFiles[i][k])
                  \/ IsError(sent[i][k], allFiles[i][k])
                  \/ IsRecord(sent[i][k], allFiles[i][k])

\* An invocation that ended after six messages.
C5_Witness ==
    \E i \in Invocations : pc[i] = "done" /\ Len(sent[i]) = 6 /\ sent[i][6].current = 6

\* C6: when the existence query found a row, the step that follows sends
\* "Skipped: <basename>" with no data, does not start the extractor and leaves
\* the table as it is.
C6_SkipExisting ==
    [][\A i \in Invocations :
          (pc[i] = "awaitGet" /\ exists[i] /\ Moves(i)) =>
              /\ sent'[i] = Append(sent[i], [current |-> current[i],
                                             total |-> Len(allFiles[i]),
                                             file |-> SkippedPrefix \o basename(filePath(i)),
                                             data |-> Null])
              /\ pc'[i] \in {"awaitGet", "done"}
              /\ store' = store]_vars

\* A Skipped message has been sent for a file the table held.
C6_Witness ==
    \E i \in Invocations : \E k \in 1..Len(sent[i]) :
        IsSkipped(sent[i][k], allFiles[i][k]) /\ allFiles[i][k] \in Paths(store)

\* C7: every row stays in the table with its eight fixed fields; a step of
\* an invocation only adds rows; any other step (update-tags) keeps the set of
\* paths and changes at most the tags of the rows of one path.
C7_RowsImmutable ==
    [][/\ \A r \in store : \E q \in store' : Fixed(q) = Fixed(r)
       /\ (\E i \in Invocations : Moves(i)) => store \subseteq store'
       /\ (\A i \in Invocations : ~Moves(i)) =>
              /\ Paths(store') = Paths(store)
              /\ Cardinality(store') = Cardinality(store)
              /\ Cardinality({r.path : r \in store \ store'}) <= 1]_vars

\* A row the pipeline inserted carries a tag set later by update-tags.
C7_Witness ==
    \E r \in store : r.path = PathW /\ r.tags = TagX /\ r.thumbnail[1] \in Invocations

LastSent(i) == sent[i][Len(sent[i])]

\* C8: an invocation with a candidate ends, its last message carrying
\* current = total, and sends nothing after such a message.
C8_Completion ==
    /\ \A i \in Invocations :
           (pc[i] # "idle" /\ allFiles[i] # <<>>) ~>
               (pc[i] = "done" /\ sent[i] # <<>> /\ LastSent(i).current = LastSent(i).total)
    /\ [][\A i \in Invocations :
             (sent[i] # <<>> /\ LastSent(i).current = LastSent(i).total) =>
                 sent'[i] = sent[i]]_vars

\* An invocation that paused after its fifth file and then ended.
C8_Witness ==
    \E i \in Invocations :
        /\ pc[i] = "done"
        /\ Len(sent[i]) >= ThrottleEvery
        /\ sent[i][ThrottleEvery].data # Null
        /\ LastSent(i).current = LastSent(i).total

Elems(arr) == {arr[k] : k \in 1..Len(arr)}

\* The resolution class as the data model defines it.
ResolutionClass(h) ==
    CASE h >= 2160 -> Res4k
      [] 1080 <= h /\ h < 2160 -> Res1080p
      [] 720 <= h /\ h < 1080 -> Res720p
      [] OTHER -> ResSd

\* The term set of a record: its tags trimmed and lower-cased (an empty tags
\* string has none), its codec lower-cased, its resolution class.
TermSet(v) ==
    {toLowerCase(trim(t)) : t \in IF v.tags = <<>> THEN {} ELSE Elems(split(v.tags, ","))}
        \cup {toLowerCase(v.codec)} \cup {ResolutionClass(v.height)}

Accepts(v) ==
    /\ ~videoManager.showUntaggedOnly \/ trim(v.tags) = <<>>
    /\ Elems(videoManager.filters.and) \subseteq TermSet(v)
    /\ videoManager.filters.or = <<>> \/ Elems(videoManager.filters.or) \cap TermSet(v) # {}
    /\ Elems(videoManager.filters.not) \cap TermSet(v) = {}

\* C9: the grid shows a record iff untagged-only is off or its trimmed tags
\* are empty, every `and` term is in its term set, `or` is empty or one of its
\* terms is in the term set, and no `not` term is in the term set.
C9_MatchFilters ==
    /\ Len(grid) <= Len(videoManager.videos)
    /\ \A k \in 1..Len(videoManager.videos) :
           Accepts(videoManager.videos[k]) <=> \E c \in 1..Len(grid) : grid[c].index = k - 1

\* A record shown with all three clauses in force, `or` holding a term the
\* record lacks.
C9_Witness ==
    /\ grid # <<>>
    /\ videoManager.filters.and # <<>>
    /\ Len(videoManager.filters.or) = 2
    /\ videoManager.filters.not # <<>>
    /\ videoManager.videos[1].tags # <<>>

\* C10: every card's resolution badge is one of the four classes, "4k" iff
\* height >= 2160, "1080p" iff 1080 <= height < 2160, "720p" iff
\* 720 <= height < 1080, "sd" iff height < 720.
C10_ResolutionCategory ==
    \A c \in 1..Len(grid) :
        LET h == videoManager.videos[grid[c].index + 1].height
            r == grid[c].resolution
        IN  /\ h >= 0
            /\ r \in {Res4k, Res1080p, Res720p, ResSd}
            /\ r = ResolutionClass(h)
            /\ r = Res4k <=> h >= 2160
            /\ r = Res1080p <=> (1080 <= h /\ h < 2160)
            /\ r = Res720p <=> (720 <= h /\ h < 1080)
            /\ r = ResSd <=> h < 720

\* A card of height exactly 2160 carrying the 4k badge.
C10_Witness ==
    \E c \in 1..Len(grid) :
        videoManager.videos[grid[c].index + 1].height = 2160 /\ grid[c].resolution = Res4k

\* A decimal numeral: digits, with at most one point among them.
Numeral(s) ==
    /\ \A k \in 1..Len(s) : isDigit(s[k]) \/ s[k] = "."
    /\ \E k \in 1..Len(s) : isDigit(s[k])
    /\ Cardinality({k \in 1..Len(s) : s[k] = "."}) <= 1

\* Its value as a fraction.
NumeralValue(s) ==
    LET point == IF \E k \in 1..Len(s) : s[k] = "." THEN CHOOSE k \in 1..Len(s) : s[k] = "." ELSE Len(s)
    IN  [num |-> digitsValue(SelectSeq(s, isDigit)), den |-> pow10(Len(s) - point)]

\* The ratio form N/D: exactly one bar.
RatioForm(s) == Cardinality({k \in 1..Len(s) : s[k] = "/"}) = 1
Bar(s) == CHOOSE k \in 1..Len(s) : s[k] = "/"
RatioN(s) == SubSeq(s, 1, Bar(s) - 1)
RatioD(s) == SubSeq(s, Bar(s) + 1, Len(s))

ZeroDenominator(s) ==
    RatioForm(s) /\ Numeral(RatioN(s)) /\ Numeral(RatioD(s)) /\ NumeralValue(RatioD(s)).num = 0

ParseFails(s) ==
    \/ s = <<>>
    \/ \A k \in 1..Len(s) : ~isDigit(s[k])
    \/ RatioForm(s) /\ (~Numeral(RatioN(s)) \/ ~Numeral(RatioD(s)))

\* C11: parseFrameRate returns "0.00" for every ratio whose denominator is
\* zero and for every input that does not parse (the empty string, a string
\* without a number, a ratio whose numerator or denominator is not a number).
C11_ZeroOnFailure ==
    \A k \in 1..Len(fps) :
        (ZeroDenominator(fps[k].r_frame_rate) \/ ParseFails(fps[k].r_frame_rate))
            => fps[k].fps = ZeroFps

\* Digits, a point and exactly two digits.
TwoDecimals(s) ==
    /\ Len(s) >= 4
    /\ s[Len(s) - 2] = "."
    /\ \A k \in 1..Len(s) : k # Len(s) - 2 => isDigit(s[k])

\* The hundredths a two-decimal string stands for.
Hundredths(s) ==
    100 * digitsValue(SubSeq(s, 1, Len(s) - 3)) + digitsValue(SubSeq(s, Len(s) - 1, Len(s)))

\* No multiple of 0.01 is nearer to x than s.
RoundedTo(s, x) ==
    LET d == Hundredths(s) * x.den - 100 * x.num
    IN  TwoDecimals(s) /\ 2 * d <= x.den /\ 0 - 2 * d <= x.den

\* The number an input is to be formatted as: the quotient of a ratio of two
\* numerals with a non-zero denominator, or the bare numeral itself.
Rate(s) ==
    IF RatioForm(s) THEN divide(NumeralValue(RatioN(s)), NumeralValue(RatioD(s)))
    ELSE NumeralValue(s)

HasRate(s) ==
    \/ Numeral(s)
    \/ RatioForm(s) /\ Numeral(RatioN(s)) /\ Numeral(RatioD(s)) /\ NumeralValue(RatioD(s)).num # 0

\* C12: for a ratio N/D of numbers with D not zero the result is N/D rounded
\* to two decimal places, and for a bare number it is that number with two
\* decimal places.
C12_RoundedToTwoDecimals ==
    \A k \in 1..Len(fps) :
        HasRate(fps[k].r_frame_rate) => RoundedTo(fps[k].fps, Rate(fps[k].r_frame_rate))

\* 30000/1001 has been parsed to 29.97, 30 to 30.00.
C12_Witness ==
    \E k \in 1..Len(fps) :
        /\ fps[k].r_frame_rate = <<"3", "0", "0", "0", "0", "/", "1", "0", "0", "1">>
        /\ fps[k].fps = <<"2", "9", ".", "9", "7">>

\* The six recognized extensions.
Recognized ==
    { <<".", "m", "p", "4">>, <<".", "m", "o", "v">>, <<".", "m", "4", "v">>,
      <<".", "a", "v", "i">>, <<".", "m", "k", "v">>, <<".", "w", "e", "b", "m">> }

\* The regular files a list of paths reaches: those listed and those lying in
\* a listed directory.
Reached(paths) ==
    {p \in RegularFiles :
        \E k \in 1..Len(paths) :
            paths[k] = p \/ (paths[k] \in Directories /\ SubSeq(p, 1, Len(p) - 1) = paths[k])}

\* C13: at every ingestion call site a regular file is a candidate iff its
\* extension, lower-cased, is one of .mp4 .mov .m4v .avi .mkv .webm.
C13_RecognizedExtensions ==
    \A k \in 1..Len(discovered) :
        \A p \in RegularFiles \cup Elems(discovered[k].files) :
            p \in Elems(discovered[k].files)
                <=> (p \in Reached(discovered[k].paths) /\ toLowerCase(extname(p)) \in Recognized)

\* A list in strictly ascending order of code units.
Ascending(items) == \A k \in 1..(Len(items) - 1) : lessThan(items[k], items[k + 1])

\* The vocabularies of a list of videos.
Codecs(videos) == {toLowerCase(videos[k].codec) : k \in 1..Len(videos)}
Classes(videos) == {ResolutionClass(videos[k].height) : k \in 1..Len(videos)}
UserTags(videos) ==
    {t \in UNION {{toLowerCase(trim(e)) : e \in Elems(split(videos[k].tags, ","))} :
                     k \in 1..Len(videos)} : t # <<>>}

\* C17: whenever updateSidebar redraws the sidebar, its three lists are the
\* distinct lower-cased codecs, the resolution classes (among 4k, 1080p,
\* 720p, sd) and the distinct lower-cased, trimmed, non-empty user tags of all
\* videos, each without duplicates in ascending order.
C17_SidebarVocabularies ==
    [][sidebar' # sidebar =>
          /\ Elems(sidebar'.format.items) = Codecs(videoManager'.videos)
          /\ Elems(sidebar'.res.items) = Classes(videoManager'.videos)
          /\ Elems(sidebar'.res.items) \subseteq {Res4k, Res1080p, Res720p, ResSd}
          /\ Elems(sidebar'.tags.items) = UserTags(videoManager'.videos)
          /\ Ascending(sidebar'.format.items)
          /\ Ascending(sidebar'.res.items)
          /\ Ascending(sidebar'.tags.items)]_vars

\* The sidebar shows two codecs, three classes and the two tags of three videos.
C17_Witness ==
    /\ Len(videoManager.videos) = 3
    /\ sidebar.format.items = << <<"h">>, <<"h", "a", "p">> >>
    /\ sidebar.res.items = <<Res4k, Res720p, ResSd>>
    /\ sidebar.tags.items = << <<"a">>, <<"b">> >>

\* C18: the filtered videos are a subsequence of the videos in their order:
\* the cards' data-index values ascend and each card shows the video at its
\* index; no videos give no cards, and with and, or, not empty and
\* untagged-only off every video has its card.
C18_OrderPreservingSubsequence ==
    loaded =>
        /\ \A k \in 1..Len(grid) :
               /\ grid[k].index \in 0..(Len(videoManager.videos) - 1)
               /\ grid[k].name = videoManager.videos[grid[k].index + 1].name
        /\ \A k \in 1..(Len(grid) - 1) : grid[k].index < grid[k + 1].index
        /\ videoManager.videos = <<>> => grid = <<>>
        /\ (videoManager.filters = NoFilters /\ ~videoManager.showUntaggedOnly)
               => Len(grid) = Len(videoManager.videos)

\* Of three videos the first and the third are shown, the second is not.
C18_Witness ==
    /\ Len(videoManager.videos) = 3
    /\ Len(grid) = 2
    /\ grid[1].index = 0
    /\ grid[2].index = 2

\* The trimmed elements of a tags string, none for the empty string.
TagElements(tags) ==
    IF tags = <<>> THEN <<>>
    ELSE LET parts == split(tags, ",") IN [k \in 1..Len(parts) |-> trim(parts[k])]

\* The tags of video k after the successful additions and removals of a log,
\* in the order of their addition.
RECURSIVE Replay(_, _)
Replay(log, k) ==
    IF log = <<>> THEN <<>>
    ELSE LET e == log[Len(log)]
             earlier == Replay(SubSeq(log, 1, Len(log) - 1), k)
         IN  IF e.video # k \/ ~e.ok THEN earlier
             ELSE IF e.kind = "add" THEN Append(earlier, e.tag)
             ELSE SelectSeq(earlier, LAMBDA t : t # e.tag)

\* C14: the tags of every video that was loaded without tags, split on
\* commas, hold no element that is empty after trimming and no two elements
\* equal after trimming, and once every operation has completed they are the
\* tags added and not removed, in the order of their addition.
C14_TagsOrderedSet ==
    \A k \in 1..Len(videoManager.videos) :
        CataloguedRows[k].tags = <<>> =>
            LET els == TagElements(videoManager.videos[k].tags)
            IN  /\ \A i \in 1..Len(els) : els[i] # <<>>
                /\ \A i, j \in 1..Len(els) : i # j => els[i] # els[j]
                /\ tagOps = <<>> => els = Replay(tagLog, k)

\* A tags string with each element trimmed.
Trimmed(tags) ==
    LET parts == split(tags, ",") IN join([k \in 1..Len(parts) |-> trim(parts[k])], ",")

\* The tags the store holds for a video.
StoredTags(video) == (CHOOSE r \in store : r.path = video.path).tags

\* C15: when a tag not among a video's tags has been added and then removed
\* by the cross of its badge, both with success, with no other invocation in
\* between and none in flight, the video's tags in memory and in the store
\* are the original tags with each element trimmed.
C15_AddRemoveRoundTrip ==
    (tagOps = <<>> /\ Len(tagLog) >= 2) =>
        LET a == tagLog[Len(tagLog) - 1]
            r == tagLog[Len(tagLog)]
        IN  ( /\ a.kind = "add" /\ r.kind = "remove"
              /\ a.ok /\ r.ok
              /\ a.video = r.video
              /\ videoManager.activeVideo = a.video
              /\ r.before = a.tags
              /\ SelectSeq(TagElements(a.tag), LAMBDA t : t # <<>>) = <<r.tag>> )
            => /\ videoManager.videos[a.video].tags = Trimmed(a.before)
               /\ StoredTags(videoManager.videos[a.video]) = Trimmed(a.before)

\* C16: update-tags is never invoked to add a tag that is among the trimmed
\* elements of the video's tags, and the step that refuses such a tag changes
\* neither the videos in memory nor the store nor the invocations made.
C16_DuplicateRejected ==
    [][/\ (Len(tagOps') > Len(tagOps) /\ tagOps'[Len(tagOps')].kind = "add")
            => ~includes(TagElements(tagOps'[Len(tagOps')].before), tagOps'[Len(tagOps')].tag)
       /\ warning' # warning
            => /\ includes(TagElements(videoManager.videos[warning'[1].video].tags), warning'[1].tag)
               /\ UNCHANGED <<videoManager, store, tagOps, tagLog>>]_vars

\* The tag x of p.mp4 was dropped on its panel and refused.
C16_Witness ==
    /\ warning = <<[video |-> 1, tag |-> TagX]>>
    /\ videoManager.activeVideo = 1
    /\ videoManager.videos[1].tags = TagX
    /\ tagLog = <<>>

\* C19: at most one generated preview file exists undeleted, and none is
\* left while a new one is being generated.
C19_OnePreviewAlive ==
    /\ Cardinality(previews) <= 1
    /\ (\E j \in 1..Len(inflight) : inflight[j].op = "generate") => previews = {}

\* The base name with _c put before its extension.
Renamed(base, c) ==
    LET d == lastDot(base)
        cut == IF d <= 1 THEN Len(base) ELSE d - 1
    IN  SubSeq(base, 1, cut) \o <<"_">> \o natDigits(c) \o SubSeq(base, cut + 1, Len(base))

\* The copies of the export that were made.
Made == SelectSeq(copies, LAMBDA c : c.copied)

\* The names taken when copy k is made: those the directory held and those
\* of the copies made before it.
Taken(k) == DOMAIN ExportDirs[destinationDir] \cup {Made[j].dest : j \in 1..(k - 1)}

\* C20: after an export every file the destination held is there with its
\* bytes; each copy made went to the base name of its source when that name
\* was free, and otherwise to name_k.ext for the smallest k >= 1 whose name
\* was free; the copies made are as many new files, each with the bytes of
\* its source.
C20_NeverOverwrites ==
    results # <<>> =>
        LET before == ExportDirs[destinationDir]
        IN  /\ \A n \in DOMAIN before : n \in DOMAIN destination /\ destination[n] = before[n]
            /\ \A k \in 1..Len(Made) :
                   LET base == basename(Made[k].src)
                       dest == Made[k].dest
                   IN  /\ dest \in DOMAIN destination /\ destination[dest] = Made[k].src
                       /\ IF base \notin Taken(k) THEN dest = base
                          ELSE \E c \in 1..(Cardinality(Taken(k)) + 1) :
                                  /\ dest = Renamed(base, c)
                                  /\ dest \notin Taken(k)
                                  /\ \A j \in 1..(c - 1) : Renamed(base, j) \in Taken(k)
            /\ Cardinality(DOMAIN destination) = Cardinality(DOMAIN before) + Len(Made)

\* Two files named p.mp4 were exported to a directory that held p.mp4 and
\* p_1.mp4, and both copies were made.
C20_Witness ==
    /\ results # <<>>
    /\ DOMAIN ExportDirs[destinationDir] = {NameP, NameP1}
    /\ Len(copies) = 2
    /\ copies[1].copied /\ copies[2].copied
    /\ copies[1].src # copies[2].src
    /\ basename(copies[1].src) = NameP /\ basename(copies[2].src) = NameP
    /\ copies[1].dest # copies[2].dest

\* C21: a step in which the extraction of a candidate fails (the probe or
\* the screenshot rejects) leaves the table as it was; a row under a new path
\* is written only by the insert of an invocation whose extraction has
\* resolved, and it is the record the extraction resolved with; and the
\* insert is reached only from a screenshot that has ended.
C21_NoPartialWrite ==
    [][/\ \A i \in Invocations :
              (pc[i] \in {"ffprobe", "screenshots"} /\ Fails(i)) => store' = store
       /\ \A r \in store' :
              r.path \notin Paths(store) =>
                  \E i \in Invocations :
                      pc[i] = "insert" /\ pc'[i] = "awaitRun" /\ r = data(i)
       /\ \A i \in Invocations :
              (pc'[i] = "insert" /\ pc[i] # "insert") => pc[i] = "screenshots"]_vars

\* A batch of one candidate, w.webm, ended in an Error message and the
\* table is the one the session found.
C21_Witness ==
    \E i \in Invocations :
        /\ pc[i] = "done"
        /\ allFiles[i] = <<PathW>>
        /\ Len(sent[i]) = 1 /\ IsError(sent[i][1], PathW)
        /\ store = Catalogued

\* C22: the screenshot is started only by the probe's answer and with no
\* message sent; a probe that fails (its step sends a message) does not start
\* it; and the extraction resolves only from a screenshot that has ended,
\* with a record of the candidate whose preview and tags are empty and whose
\* thumbnail path is not.
C22_ProbeThenScreenshot ==
    [][\A i \in Invocations :
          /\ (pc'[i] = "screenshots" /\ pc[i] # "screenshots")
                 => pc[i] = "ffprobe" /\ sent'[i] = sent[i]
          /\ (pc[i] = "ffprobe" /\ sent'[i] # sent[i]) => pc'[i] # "screenshots"
          /\ (pc'[i] = "insert" /\ pc[i] # "insert")
                 => /\ pc[i] = "screenshots" /\ sent'[i] = sent[i]
                    /\ data(i)'.path = filePath(i)
                    /\ data(i)'.preview = <<>>
                    /\ data(i)'.tags = <<>>
                    /\ data(i)'.thumbnail # <<>>]_vars

\* An extraction has resolved with its record.
C22_Witness ==
    \E i \in Invocations :
        /\ pc[i] = "insert"
        /\ data(i).thumbnail # <<>>
        /\ data(i).preview = <<>> /\ data(i).tags = <<>>

\* The label of a message starts with a prefix.
StartsWith(label, prefix) ==
    Len(label) >= Len(prefix) /\ SubSeq(label, 1, Len(prefix)) = prefix

\* The messages sent that carry a record of path p.
RecordMessages(p) ==
    UNION {{<<i, k>> : k \in {m \in 1..Len(sent[i]) :
                                 sent[i][m].data # Null /\ sent[i][m].data[1].path = p}} :
           i \in Invocations}

\* C23: every message with a record is labelled with the record's name and
\* its record is in the table (tags, which update-tags writes, set aside);
\* Skipped and Error messages carry no record; and every row the handlers have
\* inserted has exactly one message with its record, once the handler has
\* gone on from the insert.
C23_PersistBeforeEmit ==
    /\ \A i \in Invocations : \A k \in 1..Len(sent[i]) :
           LET e == sent[i][k]
           IN  /\ e.data # Null =>
                      /\ e.file = e.data[1].name
                      /\ \E r \in store : Fixed(r) = Fixed(e.data[1])
               /\ (StartsWith(e.file, SkippedPrefix) \/ StartsWith(e.file, ErrorPrefix))
                      => e.data = Null
    /\ \A r \in store :
           r.path \notin Paths(Catalogued) =>
               Cardinality(RecordMessages(r.path)) =
                   IF \E i \in Invocations : pc[i] = "awaitRun" /\ filePath(i) = r.path
                   THEN 0 ELSE 1

\* Two batches have ended, one with the record of w.webm and the other
\* with a Skipped message for it.
C23_Witness ==
    \E i, j \in Invocations :
        /\ pc[i] = "done" /\ pc[j] = "done"
        /\ \E k \in 1..Len(sent[i]) : IsRecord(sent[i][k], PathW)
        /\ \E k \in 1..Len(sent[j]) : IsSkipped(sent[j][k], PathW)
        /\ PathW \in Paths(store)

\* C24: the loop goes on from a candidate whose position is a multiple of
\* five only out of the pause, and it pauses after no other candidate.
C24_PauseEveryFifth ==
    [][\A i \in Invocations :
          /\ (current'[i] = current[i] + 1 /\ current[i] > 0
                  /\ current[i] % ThrottleEvery = 0) => pc[i] = "pause"
          /\ (pc'[i] = "pause" /\ pc[i] # "pause") => current[i] % ThrottleEvery = 0]_vars

\* The paths of a list of videos are pairwise different.
OnePerPath(videos) ==
    \A j, k \in 1..Len(videos) : videos[j].path = videos[k].path => j = k

\* C26: the list of the renderer never holds two videos with one path; an
\* event with a record replaces the video with that path and leaves the others
\* and the length as they were, or, no video having that path, adds the record
\* and nothing else; an event without a record leaves the list as it was.
C26_SinkUpsert ==
    /\ [](OnePerPath(videoManager.videos))
    /\ [][received' # received =>
            LET e == received'[1]
                old == videoManager.videos
                new == videoManager'.videos
            IN  IF e.data = Null THEN new = old
                ELSE IF \E k \in 1..Len(old) : old[k].path = e.data[1].path
                THEN /\ Len(new) = Len(old)
                     /\ \A k \in 1..Len(old) :
                            new[k] = IF old[k].path = e.data[1].path THEN e.data[1] ELSE old[k]
                ELSE /\ Len(new) = Len(old) + 1
                     /\ \E j \in 1..Len(new) : new[j] = e.data[1] /\ without(new, j) = old]_vars

\* A loaded catalogue after the events of w.webm and p.mp4: one video was
\* added and one replaced.
C26_Witness ==
    /\ Len(videoManager.videos) = Len(CataloguedRows) + 1
    /\ videoManager.videos[1].path = PathW
    /\ received # <<>>
    /\ received[1].data # Null
    /\ received[1].data[1].path = PathP
    /\ videoManager.videos[2] = received[1].data[1]
    /\ videoManager.videos[2] # CataloguedRows[1]

\* C25: whenever no handler is under way, the grid shows the current videos
\* under the current filters: every progress event with a record, tag added
\* or removed, term added, removed or cleared and every flip of the
\* untagged-only switch has rendered again.
C25_GridFollowsState ==
    (loaded /\ tagOps = <<>> /\ inflight = <<>>) => grid = render(videoManager)

\* No term stands twice in a list.
NoDuplicate(list) == \A j, k \in 1..Len(list) : list[j] = list[k] => j = k

\* C27: none of the lists and, or, not ever holds a term twice; whatever a
\* click, a drop, removeFilter or clearFilters changes in them is one of: one
\* list gets one term it did not hold, at its end; one list loses one term and
\* the two others stay as they were; all three are emptied.
C27_FilterListsAreSets ==
    /\ [](\A type \in FilterTypes : NoDuplicate(videoManager.filters[type]))
    /\ [][videoManager'.filters # videoManager.filters =>
            LET old == videoManager.filters
                new == videoManager'.filters
            IN  \/ new = NoFilters
                \/ \E type \in FilterTypes :
                       /\ \A other \in FilterTypes \ {type} : new[other] = old[other]
                       /\ \/ /\ Len(new[type]) = Len(old[type]) + 1
                             /\ SubSeq(new[type], 1, Len(old[type])) = old[type]
                             /\ ~includes(old[type], new[type][Len(new[type])])
                          \/ \E j \in 1..Len(old[type]) : new[type] = without(old[type], j)]_vars

\* One term in two lists, and a list of two terms of which the second was
\* clicked in the sidebar.
C27_Witness ==
    /\ Len(videoManager.filters.and) = 2
    /\ videoManager.filters.or = <<videoManager.filters.and[1]>>
    /\ videoManager.filters.and[2] \notin Terms
    /\ videoManager.filters["not"] = <<>>

\* Whether path root is file f or a directory above it.
Above(root, f) == Len(root) <= Len(f) /\ SubSeq(f, 1, Len(root)) = root

\* The place of a name among the entries of a directory.
EntryPlace(dir, name) ==
    CHOOSE k \in 1..Len(readdirSync(dir)) : readdirSync(dir)[k] = name

\* The regular files with a video extension that lie at or under a path.
VideosUnder(root) ==
    {f \in RegularFiles : Above(root, f) /\ includes(VIDEO_EXTS, toLowerCase(extname(f)))}

\* File f comes before file g in a depth-first walk that takes the entries of
\* every directory in directory order: where their paths part, the entry
\* leading to f stands before the one leading to g.
WalkedBefore(f, g) ==
    \E d \in 1..Len(f) :
        /\ d <= Len(g)
        /\ SubSeq(f, 1, d - 1) = SubSeq(g, 1, d - 1)
        /\ f[d] # g[d]
        /\ EntryPlace(SubSeq(f, 1, d - 1), f[d]) < EntryPlace(SubSeq(g, 1, d - 1), g[d])

\* The videos at or under a path, in the order of that walk.
Walked(root) ==
    LET fs == VideosUnder(root)
    IN  [n \in 1..Cardinality(fs) |->
            CHOOSE f \in fs : Cardinality({g \in fs : WalkedBefore(g, f)}) = n - 1]

\* The sequences of a sequence, one after the other.
RECURSIVE Flat(_)
Flat(seqs) == IF seqs = <<>> THEN <<>> ELSE Head(seqs) \o Flat(Tail(seqs))

\* C28: a traversal returns, for its paths in their order, the videos at or
\* under each in depth-first directory order; a path that does not exist
\* gives nothing and the traversal goes on; a video at or under several of
\* the paths is returned once for each.
C28_DiscoveryOrder ==
    \A k \in 1..Len(discovered) :
        discovered[k].site = "ipc-handlers" =>
            LET paths == discovered[k].paths
            IN  discovered[k].files = Flat([j \in 1..Len(paths) |-> Walked(paths[j])])

\* A traversal of top/ and then of top/sub/: q.mov is found twice, the first
\* time between the two videos of top/.
C28_Witness ==
    /\ discovered # <<>>
    /\ discovered[1].site = "ipc-handlers"
    /\ discovered[1].paths = <<PathTop, PathSub>>
    /\ discovered[1].files = <<PathTopW, PathSubQ, PathTopP, PathSubQ>>

\* A path of the traversal lies at or under the directory with the cycle.
EntersCycle == roots # <<>> /\ \E k \in 1..Len(roots[1]) : Above(PathRing, roots[1][k])

\* The traversal followed call by call returns what getFilesRecursively is.
WalkAgrees == returned # <<>> => returned[1] = getFilesRecursively(roots[1])

C30_ExportAccounting ==
    results # <<>> =>
        LET files == results[1].files
            r == results[1].results
        IN  /\ r.success + r.failed = Len(files)
            /\ Len(r.errors) = r.failed
            /\ Len(copies) = Len(files)
            /\ \A k \in 1..Len(files) :
                   /\ copies[k].src = files[k]
                   /\ copies[k].copied =>
                          /\ copies[k].dest \in DOMAIN destination
                          /\ destination[copies[k].dest] = files[k]

\* An export of two files: the copy of the first threw, the second was copied.
C30_Witness ==
    /\ results # <<>>
    /\ Len(results[1].files) = 2
    /\ results[1].results.failed = 1
    /\ results[1].results.success = 1
    /\ ~copies[1].copied
    /\ copies[2].copied

\* The videos of a list that have no user tag.
Untagged(videos) ==
    SelectSeq(videos, LAMBDA video : ~(video.tags # <<>> /\ Len(trim(video.tags)) > 0))

\* A step that empties filter lists that held a term.
Cleared == videoManager.filters # NoFilters /\ videoManager'.filters = NoFilters

\* C36 as stated: the step that empties the lists leaves the flag, the videos
\* and the active video alone, and afterwards the filtered result is the whole
\* list exactly when untagged-only is off.
C36_ClearedShowsAllIffFlagOff ==
    [][Cleared =>
          /\ videoManager'.showUntaggedOnly = videoManager.showUntaggedOnly
          /\ videoManager'.videos = videoManager.videos
          /\ videoManager'.activeVideo = videoManager.activeVideo
          /\ (getFilteredVideos(videoManager') = videoManager'.videos
                  <=> ~videoManager'.showUntaggedOnly)]_vars

\* C36, amended: the step that empties the lists leaves the flag, the videos
\* and the active video alone; afterwards the filtered result is the whole
\* list when untagged-only is off, and the videos without a user tag when it
\* is on, which is the whole list again where no video has one.
C36_ClearedShowsAllOrUntagged ==
    [][Cleared =>
          /\ videoManager'.showUntaggedOnly = videoManager.showUntaggedOnly
          /\ videoManager'.videos = videoManager.videos
          /\ videoManager'.activeVideo = videoManager.activeVideo
          /\ getFilteredVideos(videoManager') =
                 IF videoManager'.showUntaggedOnly
                 THEN Untagged(videoManager'.videos)
                 ELSE videoManager'.videos]_vars

\* No term is left, untagged-only is on, and the one video of the list, which
\* has no tag, is in the grid.
C36_Witness ==
    /\ videoManager.filters = NoFilters
    /\ videoManager.showUntaggedOnly
    /\ Len(videoManager.videos) = 1
    /\ videoManager.videos[1].tags = <<>>
    /\ Len(grid) = 1

\* The videos getFilteredVideos returns, as a set.
Kept(this) == {getFilteredVideos(this)[k] : k \in 1..Len(getFilteredVideos(this))}

\* List new is list old with one term more at its end.
Grown(old, new) == Len(new) = Len(old) + 1 /\ SubSeq(new, 1, Len(old)) = old

\* C37: over one list of videos, a term more in and or in not, or the switch
\* to untagged-only, adds no video to the filtered result; a term more in an
\* or list that held one removes none, and the first term of an or list adds
\* none.
C37_FilterMonotone ==
    [][videoManager'.videos = videoManager.videos =>
          LET old == videoManager
              new == videoManager'
              restSame(type) ==
                  /\ \A other \in FilterTypes \ {type} : new.filters[other] = old.filters[other]
                  /\ new.showUntaggedOnly = old.showUntaggedOnly
          IN  /\ (Grown(old.filters.and, new.filters.and) /\ restSame("and"))
                     => Kept(new) \subseteq Kept(old)
              /\ (Grown(old.filters["not"], new.filters["not"]) /\ restSame("not"))
                     => Kept(new) \subseteq Kept(old)
              /\ (new.filters = old.filters /\ ~old.showUntaggedOnly /\ new.showUntaggedOnly)
                     => Kept(new) \subseteq Kept(old)
              /\ (Grown(old.filters.or, new.filters.or) /\ restSame("or"))
                     => IF old.filters.or = <<>>
                        THEN Kept(new) \subseteq Kept(old)
                        ELSE Kept(old) \subseteq Kept(new)]_vars

\* The or list holds two terms and both videos of the list are kept, the
\* second one for the second term only.
C37_Witness ==
    /\ videoManager.videos = ListOfTwo
    /\ Len(videoManager.filters.or) = 2
    /\ Len(grid) = 2
    /\ ~includes(searchTerms(ListOfTwo[2]), videoManager.filters.or[1])

\* C35: an invocation for which discovery finds no candidate sends no
\* message, neither at its start, which is also its end, nor later, and the
\* step it consists of leaves the table as it was.
C35_EmptyDiscoveryIsSilent ==
    /\ [](\A i \in Invocations :
              (pc[i] # "idle" /\ allFiles[i] = <<>>) => (pc[i] = "done" /\ sent[i] = <<>>))
    /\ [][\A i \in Invocations :
              (pc[i] = "idle" /\ pc'[i] # "idle" /\ allFiles'[i] = <<>>)
                  => (store' = store /\ sent' = sent)]_vars

\* One invocation has ended without a candidate and without a message while
\* the other has sent messages.
C35_Witness ==
    \E i, j \in Invocations :
        /\ pc[i] = "done" /\ allFiles[i] = <<>> /\ sent[i] = <<>>
        /\ sent[j] # <<>>

\* The row the table holds for a video.
Stored(video) == CHOOSE r \in store : r.path = video.path

\* A tag without a comma and without blanks around it.
Plain(tag) == tag # <<>> /\ trim(tag) = tag /\ \A k \in 1..Len(tag) : tag[k] # ","

\* The two update-tags invocations of the behaviour were additions of two
\* tags to one video, both answered with success, and the second was started
\* while the first was awaited: it read the tags the first had read.
AddsOverlapped ==
    /\ Len(tagLog) = 2
    /\ tagLog[1].kind = "add" /\ tagLog[2].kind = "add"
    /\ tagLog[1].video = tagLog[2].video
    /\ tagLog[1].tag # tagLog[2].tag
    /\ Plain(tagLog[1].tag) /\ Plain(tagLog[2].tag)
    /\ tagLog[1].ok /\ tagLog[2].ok
    /\ tagLog[2].before = tagLog[1].before

\* C31: once two overlapping additions of two tags to one video have both
\* completed, the video has both tags, in the list of the renderer and in the
\* table.
C31_NoLostTagUpdate ==
    (AddsOverlapped /\ tagOps = <<>>) =>
        LET video == videoManager.videos[tagLog[1].video]
        IN  /\ includes(tagArrayOf(video), tagLog[1].tag)
            /\ includes(tagArrayOf(video), tagLog[2].tag)
            /\ includes(tagArrayOf(Stored(video)), tagLog[1].tag)
            /\ includes(tagArrayOf(Stored(video)), tagLog[2].tag)

\* C32: whenever no update-tags invocation is awaited, every video of the
\* renderer's list has the tags the table holds for its path, whether the
\* invocations succeeded or failed and whatever was clicked while they were
\* awaited.
C32_ViewMatchesStore ==
    (loaded /\ tagOps = <<>>) =>
        \A k \in 1..Len(videoManager.videos) :
            videoManager.videos[k].tags = Stored(videoManager.videos[k]).tags

\* Every invocation that was started has ended and every message it sent has
\* been handled by the renderer.
Quiet ==
    \A i \in Invocations : pc[i] \in {"idle", "done"} /\ delivered[i] = Len(sent[i])

\* C33: with no invocation running and no message on its way, the videos of
\* the renderer's list, loaded from the table before the first drop, have the
\* paths of the rows of the table.
C33_ViewPathsMatchStore ==
    (loaded /\ Quiet) =>
        {videoManager.videos[k].path : k \in 1..Len(videoManager.videos)} = Paths(store)

\* Both invocations have ended, one of them overlapping the other on
\* w.webm, whose row is in the table and whose video is in the list.
C33_Witness ==
    /\ loaded /\ Quiet
    /\ \A i \in Invocations : pc[i] = "done" /\ sent[i] # <<>>
    /\ PathW \in Paths(store)
    /\ \E i \in Invocations : \E k \in 1..Len(sent[i]) : IsError(sent[i][k], PathW)
    /\ \E k \in 1..Len(videoManager.videos) : videoManager.videos[k].path = PathW

\* An invocation that has not yet sent the message of its last candidate.
Unprocessed(j) == Len(sent[j]) < Len(allFiles[j])

\* C34: while another invocation still has candidates to process, the
\* renderer is handed no message with current equal to total, and no message
\* whose current is below the one it handled before.
C34_CompletionOnlyAtTheEnd ==
    [][\A i \in Invocations :
          (delivered'[i] = delivered[i] + 1 /\ \E j \in Invocations \ {i} : Unprocessed(j)) =>
              LET e == sent[i][delivered'[i]]
              IN  /\ e.current # e.total
                  /\ received # <<>> => e.current >= received[1].current]_vars

====
